---- MODULE Spec2Model ----
(***************************************************************************)
(* A model of etracker, an HTTP BitTorrent tracker: the announce pipeline  *)
(* (parseAnnounce, checkAnnounce, sendReply, writeAnnounce), the peering   *)
(* algorithms, the relational store (peers, infohashes, announces), the   *)
(* Redis admission cache, the admin API, the scrape handler and the prune  *)
(* job.  Every SQL statement is one atomic step; a handler is a sequence   *)
(* of such steps that other handlers may interleave with.                 *)
(***************************************************************************)
EXTENDS FiniteSets, Integers, Sequences, TLC

(***************************************************************************)
(* Program constants.                                                      *)
(***************************************************************************)
\* config.Event: the zero value is "no event".
NoEvent == 0
Started == 1
Stopped == 2
Completed == 3

Interval == 2700
StaleInterval == 2 * Interval
PruneIntervalMonths == 3
\* NOW() - INTERVAL 'n months' goes back n calendar months, of at most 31 days
SecondsPerMonth == 31 * 24 * 60 * 60
PruneInterval == PruneIntervalMonths * SecondsPerMonth

minimumPeers == 5
maxRatio == 2
DefaultNumwant == 50
MaxNumwant == 100
DefaultTrackerError == "tracker error"

(***************************************************************************)
(* Bounds of the model.                                                    *)
(***************************************************************************)
\* announce keys that GenerateHandler can issue
MaxKeys == 1
\* rows the infohashes serial can hand out
MaxHashIds == 2
\* announces handled in one behaviour
MaxAnnounces == 3
\* store or cache operations that fail in one behaviour
MaxFaults == 1
\* clock ticks in one behaviour
MaxTicks == 1

Procs == {1, 2}
Hashes == {"aaaa", "bbbb", "a+aa"}
\* the i-th key GenerateAnnounceKey draws is KeyNames[i]; keys are random
\* 30-character strings, so the order in which they are drawn is immaterial.
\* BogusKey is a key that is never drawn.
KeyNames == <<"k1", "k2", "k3", "k4", "k5">>
Keys == {KeyNames[i] : i \in 1..Len(KeyNames)}
BogusKey == "bogus"

VARIABLES
  conf,        \* config.Config: Algorithm, DisableAllowlist, Authorization
  now,         \* the store's clock (NOW()), in seconds
  peers,       \* table peers
  infohashes,  \* table infohashes
  announces,   \* table announces
  seqPeers,    \* serial of peers.id
  seqHashes,   \* serial of infohashes.id
  rdb,         \* the Redis cache: name -> "nil" | "true" | "false"
  pc,          \* position of each announce handler
  ann,         \* the parsed announce of each handler
  body,        \* what each handler has written to its ResponseWriter
  sel,         \* peers.id of the announce rows whose endpoints the reply carries
  seen,        \* whether the peer row and the info-hash row existed at admission
  last,        \* last_uploaded, last_downloaded read by writeAnnounce
  errs,        \* the steps of each handler that returned an error
  annLeft,     \* announces that may still start
  faultsLeft,  \* store or cache failures that may still happen
  ticksLeft,   \* clock ticks that may still happen
  scrapeOut,   \* the response of the scrape handled in the last step
  hist,        \* per announce key, the announces whose UPDATE peers has run
  pruneOut,    \* the result of the PruneAnnounceKeys call made in the last step
  job,         \* PruneTimer: its goroutine, its ticker's channel, its context
  timedOut,    \* the handlers whose request http.TimeoutHandler has timed out
  apiOut       \* the admin request handled in the last step: its header, its status

vars == <<conf, now, peers, infohashes, announces, seqPeers, seqHashes, rdb,
          pc, ann, body, sel, seen, last, errs, annLeft, faultsLeft, ticksLeft,
          scrapeOut, hist, pruneOut, job, timedOut, apiOut>>

(***************************************************************************)
(* Text: a query value is a sequence of characters.                        *)
(***************************************************************************)
DigitChars == <<"0", "1", "2", "3", "4", "5", "6", "7", "8", "9">>

IsDigit(c) == \E i \in 1..10 : DigitChars[i] = c

DigitVal(c) == (CHOOSE i \in 1..10 : DigitChars[i] = c) - 1

RECURSIVE DigitsVal(_)
DigitsVal(s) ==
  IF s = <<>> THEN 0
  ELSE 10 * DigitsVal(SubSeq(s, 1, Len(s) - 1)) + DigitVal(s[Len(s)])

\* the digits of s after an optional sign
Unsigned(s) == IF s # <<>> /\ s[1] \in {"+", "-"} THEN Tail(s) ELSE s

\* strconv.Atoi: err # nil
AtoiErr(s) ==
  \/ Unsigned(s) = <<>>
  \/ \E i \in 1..Len(Unsigned(s)) : ~IsDigit(Unsigned(s)[i])

\* strconv.Atoi: the value when err = nil
Atoi(s) ==
  IF s # <<>> /\ s[1] = "-" THEN 0 - DigitsVal(Unsigned(s))
  ELSE DigitsVal(Unsigned(s))

\* the decimal text of a small number
RECURSIVE Itoa(_)
Itoa(n) ==
  IF n < 0 THEN <<"-">> \o Itoa(0 - n)
  ELSE IF n < 10 THEN <<DigitChars[n + 1]>>
  ELSE Itoa(n \div 10) \o <<DigitChars[(n % 10) + 1]>>

(***************************************************************************)
(* handler.go: encodeAddr and parseAnnounce.                               *)
(***************************************************************************)
\* binary.BigEndian.PutUint16(bytesPort, uint16(portInt))
PutUint16(n) == <<(n % 65536) \div 256, (n % 65536) % 256>>

\* remote is r.RemoteAddr after strings.Split(remoteAddr, ":"): parts is the
\* number of pieces, ip the result of net.ParseIP(piece 1).To4(), <<>> for nil.
encodeAddrErr(remote, port) ==
  \/ remote.parts # 2
  \/ AtoiErr(port)
  \/ remote.ip = <<>>

encodeAddr(remote, port) == remote.ip \o PutUint16(Atoi(port))

parseAnnounceErr(r) ==
  \/ r.info_hash = ""
  \/ r.port = <<>>
  \/ encodeAddrErr(r.remote, r.port)
  \/ r.left = <<>>
  \/ AtoiErr(r.left)
  \/ r.uploaded = <<>>
  \/ AtoiErr(r.uploaded)
  \/ r.downloaded = <<>>
  \/ AtoiErr(r.downloaded)

parseEvent(e) ==
  IF e = "started" THEN Started
  ELSE IF e = "stopped" THEN Stopped
  ELSE IF e = "completed" THEN Completed
  ELSE NoEvent

parseNumwant(s) ==
  IF AtoiErr(s) \/ Atoi(s) < 0 \/ Atoi(s) > MaxNumwant THEN DefaultNumwant
  ELSE Atoi(s)

parseAnnounce(r) ==
  [Announce_key |-> r.id,
   Ip_port |-> encodeAddr(r.remote, r.port),
   Info_hash |-> r.info_hash,
   Numwant |-> parseNumwant(r.numwant),
   Amount_left |-> Atoi(r.left),
   Downloaded |-> Atoi(r.downloaded),
   Uploaded |-> Atoi(r.uploaded),
   Event |-> parseEvent(r.event)]

(***************************************************************************)
(* bencode: the two dictionaries the tracker writes.                       *)
(***************************************************************************)
FailureReason(msg) == [dict |-> "failure", reason |-> msg, peers |-> <<>>]

RECURSIVE Join(_)
Join(ps) == IF ps = <<>> THEN <<>> ELSE Head(ps) \o Join(Tail(ps))

PeerList(ps) == [dict |-> "peers", reason |-> "", peers |-> Join(ps)]

MinInterval == 30

\* a bencoded byte string, "<length>:<bytes>", and a bencoded integer, "i<n>e"
BencodeString(s) == [type |-> "string", len |-> Len(s), val |-> s]
BencodeInteger(n) == [type |-> "integer", val |-> n]

\* the values PeerList writes for the keys of the reply dictionary: the format
\* is "d8:interval%d:%s12:min interval%d:%s5:peers%d:%se", each %d:%s being the
\* length and the text of fmt.Sprintf("%d", ...) or the joined peers
PeerListValues(joined) ==
  [interval |-> BencodeString(Itoa(Interval)),
   min_interval |-> BencodeString(Itoa(MinInterval)),
   peers |-> BencodeString(joined)]

(***************************************************************************)
(* The store: rows and the joins the queries use.                          *)
(***************************************************************************)
\* last_announce >= NOW() - INTERVAL 'StaleInterval seconds'
Recent(r) == r.last_announce >= now - StaleInterval

\* announces JOIN peers ON announces.peers_id = peers.id, with announce_key = k
RowsOfKey(k) ==
  {r \in announces : \E p \in peers : p.id = r.peers_id /\ p.announce_key = k}

\* announces JOIN infohashes ON announces.info_hash_id = infohashes.id, with info_hash = h
RowsOfHash(h) ==
  {r \in announces : \E i \in infohashes : i.id = r.info_hash_id /\ i.info_hash = h}

\* SELECT DISTINCT ON (peers_id) ... ORDER BY peers_id, last_announce DESC
DistinctOnKey(rows) ==
  {r \in rows : \A q \in rows :
     q.peers_id = r.peers_id => q.last_announce <= r.last_announce}

\* SELECT DISTINCT ON (info_hash_id) ... ORDER BY info_hash_id, last_announce DESC
DistinctOnHash(rows) ==
  {r \in rows : \A q \in rows :
     q.info_hash_id = r.info_hash_id => q.last_announce <= r.last_announce}

RECURSIVE SetToSeq(_)
SetToSeq(S) ==
  IF S = {} THEN <<>>
  ELSE LET x == CHOOSE y \in S : TRUE IN <<x>> \o SetToSeq(S \ {x})

RECURSIVE SumOver(_, _)
SumOver(f, S) ==
  IF S = {} THEN 0
  ELSE LET x == CHOOSE y \in S : TRUE IN f[x] + SumOver(f, S \ {x})

Max2(a, b) == IF a >= b THEN a ELSE b
Min2(a, b) == IF a <= b THEN a ELSE b

\* Go's integer division truncates toward zero
GoDiv(a, b) ==
  LET abs(v) == IF v < 0 THEN 0 - v ELSE v
      q == abs(a) \div abs(b)
  IN IF (a < 0) = (b < 0) THEN q ELSE 0 - q

(***************************************************************************)
(* sendReply's query: the candidate rows for an announce.                  *)
(***************************************************************************)
CandidateRowsAll(a) ==
  DistinctOnKey({r \in RowsOfHash(a.Info_hash) :
     /\ \E p \in peers : p.id = r.peers_id /\ p.announce_key # a.Announce_key
     /\ Recent(r)})

CandidateRowsWithSelf(a) ==
  DistinctOnKey({r \in RowsOfHash(a.Info_hash) : Recent(r) /\ r.event # Stopped})

CandidateRows(a) ==
  DistinctOnKey({r \in RowsOfHash(a.Info_hash) :
     /\ \E p \in peers : p.id = r.peers_id /\ p.announce_key # a.Announce_key
     /\ Recent(r)
     /\ r.event # Stopped})

(***************************************************************************)
(* handler_algorithms.go.  An algorithm yields the set of values the build *)
(* can return: int(NaN) is implementation-dependent in Go (amd64 gives the *)
(* minimum int, arm64 gives 0).  The empty set stands for a returned error. *)
(***************************************************************************)
\* stands for the minimum int; only its sign is used
MinInt == 0 - 1000000
NaNToInt == {MinInt, 0}

NumwantPeers(a) == {a.Numwant}

\* as if the announce's own row were written before the count is taken
PeersForAnnouncesWithOwn(a) ==
  LET torrentCount ==
        Cardinality({r \in RowsOfKey(a.Announce_key) : Recent(r) /\ r.event # Stopped}) + 1
  IN {IF torrentCount >= a.Numwant THEN a.Numwant ELSE torrentCount + 1}

PeersForAnnouncesAnyAge(a) ==
  LET torrentCount ==
        Cardinality({r \in RowsOfKey(a.Announce_key) : r.event # Stopped})
  IN {IF torrentCount >= a.Numwant THEN a.Numwant ELSE torrentCount + 1}

PeersForAnnounces(a) ==
  LET torrentCount ==
        Cardinality({r \in RowsOfKey(a.Announce_key) : Recent(r) /\ r.event # Stopped})
  IN {IF torrentCount >= a.Numwant THEN a.Numwant ELSE torrentCount + 1}

\* without the `+ 1` of the else branch
PeersForSeedsNoExtra(a) ==
  LET torrentCount ==
        Cardinality({r \in RowsOfKey(a.Announce_key) :
                       r.amount_left = 0 /\ Recent(r) /\ r.event # Stopped})
  IN {IF torrentCount >= a.Numwant THEN a.Numwant ELSE torrentCount}

PeersForSeeds(a) ==
  LET torrentCount ==
        Cardinality({r \in RowsOfKey(a.Announce_key) :
                       r.amount_left = 0 /\ Recent(r) /\ r.event # Stopped})
  IN {IF torrentCount >= a.Numwant THEN a.Numwant ELSE torrentCount + 1}

RECURSIVE Pow(_, _)
Pow(b, e) == IF e = 0 THEN 1 ELSE b * Pow(b, e - 1)

\* y = minimumPeers + n*tanh(k*x) with n = numWanted - minimumPeers and
\* k = atanh((n - 0.1)/(n + 0.1))/goodSeedCount.  For n > 0 the atanh is
\* ln(10n)/2, so tanh(k*x) = (B - 1)/(B + 1) with B = (10n)^(x/goodSeedCount),
\* and y <= minimumPeers + j iff (n - j)^goodSeedCount * (10n)^x <= (n + j)^goodSeedCount.
\* For n < 0 the atanh is NaN; for n = 0 it is -Inf, and -Inf*0 is NaN.
smoothFunction(x, numWanted, goodSeedCount) ==
  LET n == numWanted - minimumPeers
      below(j) == Pow(n - j, goodSeedCount) * Pow(10 * n, x) <= Pow(n + j, goodSeedCount)
  IN IF n < 0 THEN NaNToInt
     ELSE IF n = 0 THEN (IF x = 0 THEN NaNToInt ELSE {minimumPeers})
     ELSE IF x = 0 THEN {minimumPeers}
     ELSE {minimumPeers + (CHOOSE j \in 0..n : below(j) /\ \A i \in 0..(j - 1) : ~below(i))}

\* COALESCE((STDDEV_POP(seed_count) + AVG(seed_count))::integer, minimumPeers)
\* over the seed counts cnt[p], p \in P: the integer nearest to (sqrt(D) + S)/m
\* with S the sum, Q the sum of squares, m the number of counts, D = m*Q - S*S.
goodSeedCountOf(cnt, P) ==
  LET m == Cardinality(P)
      S == SumOver(cnt, P)
      Q == SumOver([p \in P |-> cnt[p] * cnt[p]], P)
      D == m * Q - S * S
      atLeast(g) == LET lo == (2 * g - 1) * m - 2 * S IN lo <= 0 \/ lo * lo <= 4 * D
      below(g) == LET hi == (2 * g + 1) * m - 2 * S IN hi > 0 /\ 4 * D < hi * hi
  IN IF P = {} THEN minimumPeers
     ELSE CHOOSE g \in 0..(2 * S + 1) : atLeast(g) /\ below(g)

PeersForGoodSeeds(a) ==
  LET rows == DistinctOnHash({r \in RowsOfKey(a.Announce_key) :
                                Recent(r) /\ r.event # Stopped})
      totalCount == Cardinality(rows)
      seededCount == Cardinality({r \in rows : r.amount_left = 0})
      posRatio == Cardinality({r \in rows :
                     IF r.downloaded = 0 THEN r.uploaded > 0
                     ELSE GoDiv(r.uploaded, r.downloaded) >= 1})
      peerScore == IF totalCount = 0 THEN 0
                   ELSE seededCount * (1 + posRatio \div totalCount)
      seeds == {r \in announces :
                  /\ \E p \in peers : p.id = r.peers_id
                  /\ r.amount_left = 0 /\ Recent(r) /\ r.event # Stopped}
      P == {r.peers_id : r \in seeds}
      cnt == [p \in P |-> Cardinality({r \in seeds : r.peers_id = p})]
      goodSeedCount == goodSeedCountOf(cnt, P)
  IN IF a.Numwant = 0 THEN {0}
     ELSE smoothFunction(peerScore, a.Numwant, goodSeedCount)

\* ratio = uploaded/downloaded (0 when downloaded = 0) and seedPercentage =
\* seeding/snatched (1 when snatched = 0), kept as fractions:
\* numToScale = (snatched - seeding) * Numwant * max(0, 2*downloaded - uploaded)
\*              / (2 * snatched * downloaded)
PeersForRatio(a) ==
  LET me == {p \in peers : p.announce_key = a.Announce_key}
      p == CHOOSE q \in me : TRUE
      seeding == Cardinality({r \in RowsOfKey(a.Announce_key) :
                                r.amount_left = 0 /\ Recent(r) /\ r.event # Stopped})
      numToScale ==
        IF p.downloaded = 0
        THEN ((p.snatched - seeding) * a.Numwant) \div p.snatched
        ELSE ((p.snatched - seeding) * a.Numwant
                * Max2(0, maxRatio * p.downloaded - p.uploaded))
             \div (maxRatio * p.snatched * p.downloaded)
  IN IF me = {} THEN {}
     ELSE IF p.snatched = 0 \/ seeding >= p.snatched THEN {a.Numwant}
     ELSE {Max2(minimumPeers, Min2(a.Numwant, a.Numwant - numToScale))}

Algorithms == {"NumwantPeers", "PeersForAnnounces", "PeersForSeeds",
               "PeersForGoodSeeds", "PeersForRatio"}

\* conf.Algorithm(conf, a)
Algorithm(a) ==
  IF conf.Algorithm = "NumwantPeers" THEN NumwantPeers(a)
  ELSE IF conf.Algorithm = "PeersForAnnounces" THEN PeersForAnnounces(a)
  ELSE IF conf.Algorithm = "PeersForSeeds" THEN PeersForSeeds(a)
  ELSE IF conf.Algorithm = "PeersForGoodSeeds" THEN PeersForGoodSeeds(a)
  ELSE PeersForRatio(a)

(***************************************************************************)
(* The admission cache.  A name is <<prefix, id>>; "nil" is redis.Nil.     *)
(***************************************************************************)
AnnounceName(k) == <<"announce:", k>>
InfoHashName(h) == <<"info_hash:", h>>
\* the name PruneAnnounceKeys passes to Unlink: the announce key itself
PruneName(k) == <<"", k>>

CacheNames ==
  {AnnounceName(k) : k \in Keys \cup {BogusKey}}
    \cup {InfoHashName(h) : h \in Hashes}
    \cup {PruneName(k) : k \in Keys \cup {BogusKey}}

BoolText(b) == IF b THEN "true" ELSE "false"

\* rdb.Unlink(ctx, names...)
Unlink(cache, names) == [n \in CacheNames |-> IF n \in names THEN "nil" ELSE cache[n]]

(***************************************************************************)
(* handler.go: checkAnnounce.  f is the set of cache and store operations  *)
(* that fail during this call; used is the part of f that was reached.     *)
(***************************************************************************)
CheckFaults == {"get_key", "query_key", "set_key", "get_hash", "db_hash", "set_hash"}

\* `if err != nil` after a Get: redis.Nil and every other error are a miss
CacheHitUnlessNil(g) == g # "nil"

CacheHit(g) == g \notin {"nil", "err"}

checkAnnounce(a, f) ==
  LET kname == AnnounceName(a.Announce_key)
      g1 == IF "get_key" \in f THEN "err" ELSE rdb[kname]
      hit1 == CacheHit(g1)
      inPeers == \E p \in peers : p.announce_key = a.Announce_key
      q1fail == ~hit1 /\ "query_key" \in f
      tracked == IF hit1 THEN g1 # "false" ELSE inPeers
      rdb1 == IF ~hit1 /\ ~q1fail /\ "set_key" \notin f
              THEN [rdb EXCEPT ![kname] = BoolText(inPeers)]
              ELSE rdb
      used1 == {x \in f : \/ x = "get_key"
                          \/ x = "query_key" /\ ~hit1
                          \/ x = "set_key" /\ ~hit1 /\ ~q1fail}
      hname == InfoHashName(a.Info_hash)
      g2 == IF "get_hash" \in f THEN "err" ELSE rdb1[hname]
      hit2 == CacheHit(g2)
      inHashes == \E i \in infohashes : i.info_hash = a.Info_hash
      q2fail == ~hit2 /\ "db_hash" \in f
      used2 == {x \in f : \/ x = "get_hash"
                          \/ x = "db_hash" /\ ~hit2
                          \/ x = "set_hash" /\ ~hit2 /\ (conf.DisableAllowlist \/ ~q2fail)}
      \* DisableAllowlist: the cache is set before the INSERT ... ON CONFLICT DO NOTHING
      rdbOpen == IF ~hit2 /\ "set_hash" \notin f
                 THEN [rdb1 EXCEPT ![hname] = "true"]
                 ELSE rdb1
      inserted == ~hit2 /\ ~q2fail /\ ~inHashes
      hashesOpen == IF inserted
                    THEN infohashes \cup {[id |-> seqHashes, info_hash |-> a.Info_hash,
                                           downloaded |-> 0, name |-> "client added"]}
                    ELSE infohashes
      \* allowlist: SELECT EXISTS, then the cache is set
      allowed == IF hit2 THEN g2 # "false" ELSE inHashes
      rdbList == IF ~hit2 /\ ~q2fail /\ "set_hash" \notin f
                 THEN [rdb1 EXCEPT ![hname] = BoolText(inHashes)]
                 ELSE rdb1
      same == [rdb |-> rdb1, infohashes |-> infohashes, seqHashes |-> seqHashes]
  IN IF q1fail THEN [res |-> "error", used |-> used1] @@ same
     ELSE IF ~tracked THEN [res |-> "untracked", used |-> used1] @@ same
     ELSE IF conf.DisableAllowlist
     THEN [res |-> IF q2fail THEN "error" ELSE "ok",
           used |-> used1 \cup used2,
           rdb |-> rdbOpen,
           infohashes |-> hashesOpen,
           seqHashes |-> IF inserted THEN seqHashes + 1 ELSE seqHashes]
     ELSE [res |-> IF q2fail THEN "error" ELSE IF allowed THEN "ok" ELSE "notallowed",
           used |-> used1 \cup used2,
           rdb |-> rdbList,
           infohashes |-> infohashes,
           seqHashes |-> seqHashes]

\* the message PeerHandler writes for an error of checkAnnounce
checkMessage(res) ==
  IF res = "notallowed" THEN "info_hash not in the allowed list"
  ELSE IF res = "untracked" THEN "untracked announce key, generate new announce url"
  ELSE DefaultTrackerError

(***************************************************************************)
(* The announce handler, PeerHandler, step by step.                        *)
(***************************************************************************)
NoAnnounce == [Announce_key |-> "", Ip_port |-> <<>>, Info_hash |-> "", Numwant |-> 0,
               Amount_left |-> 0, Downloaded |-> 0, Uploaded |-> 0, Event |-> NoEvent]
NotSeen == [peer |-> FALSE, hash |-> FALSE]

\* what a step that touches neither the store nor the cache leaves alone
StoreUnchanged == UNCHANGED <<peers, infohashes, announces, seqPeers, seqHashes>>
\* the configuration and the clock stay; a scrape response is gone after a step
NoPrune == [ran |-> FALSE, err |-> "", keys |-> {}]
NoAPI == [code |-> 0, authorization |-> ""]
NoOutputs ==
  /\ UNCHANGED <<conf, now, ticksLeft, job>>
  /\ scrapeOut' = [files |-> {}]
  /\ pruneOut' = NoPrune
ClockUnchanged == NoOutputs /\ apiOut' = NoAPI

\* at most one operation fails in one call of checkAnnounce
FaultSets == IF faultsLeft = 0 THEN {{}} ELSE {{}} \cup {{x} : x \in CheckFaults}

\* PeerHandler up to the return of checkAnnounce: parseAnnounce, then checkAnnounce
Begin(p, r) ==
  /\ pc[p] = "idle"
  /\ annLeft > 0
  /\ annLeft' = annLeft - 1
  /\ sel' = [sel EXCEPT ![p] = {}]
  /\ last' = [last EXCEPT ![p] = <<0, 0>>]
  /\ UNCHANGED <<peers, announces, seqPeers, hist, timedOut>>
  /\ ClockUnchanged
  /\ IF parseAnnounceErr(r)
     THEN /\ pc' = [pc EXCEPT ![p] = "done"]
          /\ ann' = [ann EXCEPT ![p] = NoAnnounce]
          /\ seen' = [seen EXCEPT ![p] = NotSeen]
          /\ body' = [body EXCEPT ![p] = <<FailureReason("error parsing announce")>>]
          /\ errs' = [errs EXCEPT ![p] = {"parse"}]
          /\ UNCHANGED <<rdb, infohashes, seqHashes, faultsLeft>>
     ELSE \E f \in FaultSets :
            LET a == parseAnnounce(r)
                c == checkAnnounce(a, f)
            IN /\ Cardinality(f) <= faultsLeft
               /\ c.used = f
               /\ c.seqHashes <= MaxHashIds + 1
               /\ faultsLeft' = faultsLeft - Cardinality(f)
               /\ rdb' = c.rdb
               /\ infohashes' = c.infohashes
               /\ seqHashes' = c.seqHashes
               /\ ann' = [ann EXCEPT ![p] = a]
               /\ seen' = [seen EXCEPT ![p] =
                     [peer |-> \E q \in peers : q.announce_key = a.Announce_key,
                      hash |-> \E i \in infohashes : i.info_hash = a.Info_hash]]
               /\ IF c.res = "ok"
                  THEN /\ pc' = [pc EXCEPT ![p] = "reply"]
                       /\ body' = [body EXCEPT ![p] = <<>>]
                       /\ errs' = [errs EXCEPT ![p] = {}]
                  ELSE /\ pc' = [pc EXCEPT ![p] = "done"]
                       /\ body' = [body EXCEPT ![p] = <<FailureReason(checkMessage(c.res))>>]
                       /\ errs' = [errs EXCEPT ![p] = {"check"}]

\* peers[:numToGive] after rand.Shuffle: any numToGive of the candidates
Truncations(C, numToGive) ==
  IF Cardinality(C) > numToGive
  THEN {S \in SUBSET C : Cardinality(S) = numToGive}
  ELSE {C}

\* sendReply returns nil: the query and the algorithm succeed, the reply is written
SendReply(p) ==
  /\ pc[p] = "reply"
  /\ \E numToGive \in Algorithm(ann[p]) :
       LET C == CandidateRows(ann[p]) IN
       IF Cardinality(C) > numToGive /\ numToGive < 0
       THEN \* peers[:numToGive] panics; net/http recovers and drops the connection
            /\ pc' = [pc EXCEPT ![p] = "done"]
            /\ errs' = [errs EXCEPT ![p] = @ \cup {"panic"}]
            /\ UNCHANGED <<body, sel>>
       ELSE IF timedOut[p]
       THEN \* w.Write returns http.ErrHandlerTimeout, which PeerHandler logs
            /\ pc' = [pc EXCEPT ![p] = "wread"]
            /\ errs' = [errs EXCEPT ![p] = @ \cup {"reply"}]
            /\ UNCHANGED <<body, sel>>
       ELSE \E S \in Truncations(C, numToGive) :
              /\ pc' = [pc EXCEPT ![p] = "wread"]
              /\ body' = [body EXCEPT ![p] =
                    Append(@, PeerList([i \in 1..Cardinality(S) |-> SetToSeq(S)[i].ip_port]))]
              /\ sel' = [sel EXCEPT ![p] = {r.peers_id : r \in S}]
              /\ UNCHANGED errs
  /\ UNCHANGED <<ann, seen, last, rdb, annLeft, faultsLeft, hist, timedOut>>
  /\ StoreUnchanged
  /\ ClockUnchanged

\* sendReply returns an error (its query or the algorithm fails): PeerHandler
\* logs it and goes on to writeAnnounce
SendReplyError(p) ==
  /\ pc[p] = "reply"
  /\ \/ faultsLeft > 0 /\ faultsLeft' = faultsLeft - 1
     \/ Algorithm(ann[p]) = {} /\ UNCHANGED faultsLeft
  /\ pc' = [pc EXCEPT ![p] = "wread"]
  /\ errs' = [errs EXCEPT ![p] = @ \cup {"reply"}]
  /\ UNCHANGED <<ann, seen, body, sel, last, rdb, annLeft, hist, timedOut>>
  /\ StoreUnchanged
  /\ ClockUnchanged

LastAnnounceAny(a) ==
  LET rows == RowsOfKey(a.Announce_key) \cap RowsOfHash(a.Info_hash)
      top == {r \in rows : \A q \in rows : q.last_announce <= r.last_announce}
  IN IF rows = {} THEN {<<0, 0>>} ELSE {<<r.uploaded, r.downloaded>> : r \in top}

\* writeAnnounce, first statement: the most recent non-stopped announce row
LastAnnounce(a) ==
  LET rows == {r \in RowsOfKey(a.Announce_key) \cap RowsOfHash(a.Info_hash) :
                 r.event # Stopped}
      top == {r \in rows : \A q \in rows : q.last_announce <= r.last_announce}
  IN IF rows = {} THEN {<<0, 0>>} ELSE {<<r.uploaded, r.downloaded>> : r \in top}

WriteRead(p) ==
  /\ pc[p] = "wread"
  /\ \E l \in LastAnnounce(ann[p]) : last' = [last EXCEPT ![p] = l]
  /\ pc' = [pc EXCEPT ![p] = "wpeers"]
  /\ UNCHANGED <<ann, seen, body, sel, errs, rdb, annLeft, faultsLeft, hist, timedOut>>
  /\ StoreUnchanged
  /\ ClockUnchanged

UpdatePeersNoBaseline(a, l) ==
  {IF q.announce_key = a.Announce_key
   THEN [q EXCEPT !.snatched = @ + (IF a.Event = Completed THEN 1 ELSE 0),
                  !.uploaded = @ + a.Uploaded,
                  !.downloaded = @ + a.Downloaded]
   ELSE q : q \in peers}

UpdatePeersUnclamped(a, l) ==
  {IF q.announce_key = a.Announce_key
   THEN [q EXCEPT !.snatched = @ + (IF a.Event = Completed THEN 1 ELSE 0),
                  !.uploaded = @ + (a.Uploaded - l[1]),
                  !.downloaded = @ + (a.Downloaded - l[2])]
   ELSE q : q \in peers}

\* writeAnnounce, second statement: UPDATE peers
UpdatePeers(a, l) ==
  LET upload_change == Max2(0, a.Uploaded - l[1])
      download_change == Max2(0, a.Downloaded - l[2])
      completed_snatch == IF a.Event = Completed THEN 1 ELSE 0
  IN {IF q.announce_key = a.Announce_key
      THEN [q EXCEPT !.snatched = @ + completed_snatch,
                     !.uploaded = @ + upload_change,
                     !.downloaded = @ + download_change]
      ELSE q : q \in peers}

WritePeers(p) ==
  /\ pc[p] = "wpeers"
  /\ peers' = UpdatePeers(ann[p], last[p])
  /\ hist' = [hist EXCEPT ![ann[p].Announce_key] =
                Append(@, <<ann[p].Uploaded, ann[p].Downloaded, ann[p].Event>>)]
  /\ pc' = [pc EXCEPT ![p] = IF ann[p].Event = Completed THEN "winfo" ELSE "wann"]
  /\ UNCHANGED <<ann, seen, body, sel, last, errs, rdb, annLeft, faultsLeft, timedOut>>
  /\ UNCHANGED <<infohashes, announces, seqPeers, seqHashes>>
  /\ ClockUnchanged

\* writeAnnounce, third statement: UPDATE infohashes SET downloaded = downloaded + 1
UpdateInfohashesNone(a) == infohashes

UpdateInfohashes(a) ==
  {IF i.info_hash = a.Info_hash THEN [i EXCEPT !.downloaded = @ + 1] ELSE i :
     i \in infohashes}

WriteInfohash(p) ==
  /\ pc[p] = "winfo"
  /\ infohashes' = UpdateInfohashes(ann[p])
  /\ pc' = [pc EXCEPT ![p] = "wann"]
  /\ UNCHANGED <<ann, seen, body, sel, last, errs, rdb, annLeft, faultsLeft, hist, timedOut>>
  /\ UNCHANGED <<peers, announces, seqPeers, seqHashes>>
  /\ ClockUnchanged

\* without the trigger: a conflicting row keeps its last_announce
UpsertAnnouncesNoTrigger(a) ==
  LET new == {[peers_id |-> q.id, info_hash_id |-> i.id, ip_port |-> a.Ip_port,
               amount_left |-> a.Amount_left, downloaded |-> a.Downloaded,
               uploaded |-> a.Uploaded, event |-> a.Event,
               last_announce |->
                 IF \E r \in announces : r.peers_id = q.id /\ r.info_hash_id = i.id
                 THEN (CHOOSE r \in announces :
                         r.peers_id = q.id /\ r.info_hash_id = i.id).last_announce
                 ELSE now] :
                q \in {x \in peers : x.announce_key = a.Announce_key},
                i \in {x \in infohashes : x.info_hash = a.Info_hash}}
  IN {r \in announces : ~\E n \in new : n.peers_id = r.peers_id
                                        /\ n.info_hash_id = r.info_hash_id}
       \cup new

UpsertAnnouncesInsert(a) ==
  announces \cup
    {[peers_id |-> q.id, info_hash_id |-> i.id, ip_port |-> a.Ip_port,
      amount_left |-> a.Amount_left, downloaded |-> a.Downloaded,
      uploaded |-> a.Uploaded, event |-> a.Event, last_announce |-> now] :
       q \in {x \in peers : x.announce_key = a.Announce_key},
       i \in {x \in infohashes : x.info_hash = a.Info_hash}}

\* writeAnnounce, last statement: INSERT INTO announces ... SELECT ... FROM
\* infohashes JOIN peers ... ON CONFLICT (peers_id, info_hash_id) DO UPDATE;
\* the insert default and the update trigger both set last_announce to NOW()
UpsertAnnounces(a) ==
  LET new == {[peers_id |-> q.id, info_hash_id |-> i.id, ip_port |-> a.Ip_port,
               amount_left |-> a.Amount_left, downloaded |-> a.Downloaded,
               uploaded |-> a.Uploaded, event |-> a.Event, last_announce |-> now] :
                q \in {x \in peers : x.announce_key = a.Announce_key},
                i \in {x \in infohashes : x.info_hash = a.Info_hash}}
  IN {r \in announces : ~\E n \in new : n.peers_id = r.peers_id
                                        /\ n.info_hash_id = r.info_hash_id}
       \cup new

WriteAnnounces(p) ==
  /\ pc[p] = "wann"
  /\ announces' = UpsertAnnounces(ann[p])
  /\ pc' = [pc EXCEPT ![p] = "done"]
  /\ UNCHANGED <<ann, seen, body, sel, last, errs, rdb, annLeft, faultsLeft, hist, timedOut>>
  /\ UNCHANGED <<peers, infohashes, seqPeers, seqHashes>>
  /\ ClockUnchanged

\* a statement of writeAnnounce fails: writeAnnounce returns the error and
\* PeerHandler writes the tracker error
WriteError(p) ==
  /\ pc[p] \in {"wread", "wpeers", "winfo", "wann"}
  /\ faultsLeft > 0
  /\ faultsLeft' = faultsLeft - 1
  /\ pc' = [pc EXCEPT ![p] = "done"]
  /\ body' = [body EXCEPT ![p] =
        IF timedOut[p] THEN @ ELSE Append(@, FailureReason(DefaultTrackerError))]
  /\ errs' = [errs EXCEPT ![p] = @ \cup {"write"}]
  /\ UNCHANGED <<ann, seen, sel, last, rdb, annLeft, hist, timedOut>>
  /\ StoreUnchanged
  /\ ClockUnchanged

\* main: http.TimeoutHandler(mux, time.Second, "Timeout").  The second is
\* over while the handler runs: the client gets the 503 "Timeout" instead of
\* what the handler wrote, the request's context is cancelled, and the
\* handler's goroutine runs on
TimeoutReply == [dict |-> "timeout", reason |-> "Timeout", peers |-> <<>>]

Timeout(p) ==
  /\ pc[p] \in {"reply", "wread", "wpeers", "winfo", "wann"}
  /\ ~timedOut[p]
  /\ timedOut' = [timedOut EXCEPT ![p] = TRUE]
  /\ body' = [body EXCEPT ![p] = <<TimeoutReply>>]
  /\ UNCHANGED <<pc, ann, seen, sel, last, errs, rdb, annLeft, faultsLeft, hist>>
  /\ StoreUnchanged
  /\ ClockUnchanged

\* the handler has returned: its ResponseWriter and its locals are gone
Return(p) ==
  /\ pc[p] = "done"
  /\ pc' = [pc EXCEPT ![p] = "idle"]
  /\ ann' = [ann EXCEPT ![p] = NoAnnounce]
  /\ body' = [body EXCEPT ![p] = <<>>]
  /\ sel' = [sel EXCEPT ![p] = {}]
  /\ seen' = [seen EXCEPT ![p] = NotSeen]
  /\ last' = [last EXCEPT ![p] = <<0, 0>>]
  /\ errs' = [errs EXCEPT ![p] = {}]
  /\ timedOut' = [timedOut EXCEPT ![p] = FALSE]
  /\ UNCHANGED <<rdb, annLeft, faultsLeft, hist>>
  /\ StoreUnchanged
  /\ ClockUnchanged

(***************************************************************************)
(* The admin API, key generation, the prune job, scrape and the clock.     *)
(***************************************************************************)
HandlersUnchanged ==
  UNCHANGED <<pc, ann, body, sel, seen, last, errs, annLeft, hist, timedOut>>

validateAPIKeyUnset(authorization) == authorization = conf.Authorization

\* api: validateAPIKey
validateAPIKey(authorization) ==
  /\ conf.Authorization # ""
  /\ authorization # ""
  /\ authorization = conf.Authorization

\* api: the status validateAPIKey writes when it returns false
StatusForbidden == 403
StatusBadRequest == 400
StatusCreated == 201
StatusOK == 200

validateStatus(authorization) ==
  IF conf.Authorization = "" THEN StatusForbidden
  ELSE IF authorization = "" THEN StatusBadRequest
  ELSE StatusForbidden

\* api: PostInfohashHandler; a unique violation leaves the table as it is
InsertInfohashOrRename(h, name) ==
  {i \in infohashes : i.info_hash # h}
    \cup {[id |-> IF \E i \in infohashes : i.info_hash = h
                  THEN (CHOOSE i \in infohashes : i.info_hash = h).id
                  ELSE seqHashes,
           info_hash |-> h, downloaded |-> 0, name |-> name]}

InsertInfohash(h, name) ==
  IF \E i \in infohashes : i.info_hash = h
  THEN infohashes
  ELSE infohashes \cup {[id |-> seqHashes, info_hash |-> h, downloaded |-> 0, name |-> name]}

PostInfohash(h, name, authorization) ==
  /\ seqHashes <= MaxHashIds
  /\ IF validateAPIKey(authorization)
     THEN /\ infohashes' = InsertInfohash(h, name)
          /\ seqHashes' = IF infohashes' = infohashes THEN seqHashes ELSE seqHashes + 1
          /\ apiOut' = [code |-> IF infohashes' = infohashes THEN StatusBadRequest
                                 ELSE StatusCreated,
                        authorization |-> authorization]
     ELSE /\ UNCHANGED <<infohashes, seqHashes>>
          /\ apiOut' = [code |-> validateStatus(authorization),
                        authorization |-> authorization]
  /\ UNCHANGED <<peers, announces, seqPeers, rdb, faultsLeft>>
  /\ HandlersUnchanged
  /\ NoOutputs

\* api: PostTorrentFileHandler; h is the SHA-1 of the file's info dictionary
\* and name its name; the columns file and length are not modelled
PostTorrentFile(h, name, authorization) ==
  /\ seqHashes <= MaxHashIds
  /\ IF validateAPIKey(authorization)
     THEN /\ infohashes' = InsertInfohash(h, name)
          /\ seqHashes' = IF infohashes' = infohashes THEN seqHashes ELSE seqHashes + 1
          /\ apiOut' = [code |-> IF infohashes' = infohashes THEN StatusBadRequest
                                 ELSE StatusCreated,
                        authorization |-> authorization]
     ELSE /\ UNCHANGED <<infohashes, seqHashes>>
          /\ apiOut' = [code |-> validateStatus(authorization),
                        authorization |-> authorization]
  /\ UNCHANGED <<peers, announces, seqPeers, rdb, faultsLeft>>
  /\ HandlersUnchanged
  /\ NoOutputs

\* api: DeleteInfohashHandler; ON DELETE CASCADE removes the announces
DeleteInfohashRows(h) == {i \in infohashes : i.info_hash # h}

CascadeInfohashes(hs) == {r \in announces : \E i \in hs : i.id = r.info_hash_id}

DeleteInfohash(h, authorization) ==
  /\ IF validateAPIKey(authorization)
     THEN /\ infohashes' = DeleteInfohashRows(h)
          /\ announces' = CascadeInfohashes(infohashes')
          /\ apiOut' = [code |-> StatusOK, authorization |-> authorization]
     ELSE /\ UNCHANGED <<infohashes, announces>>
          /\ apiOut' = [code |-> validateStatus(authorization),
                        authorization |-> authorization]
  /\ UNCHANGED <<peers, seqPeers, seqHashes, rdb, faultsLeft>>
  /\ HandlersUnchanged
  /\ NoOutputs

\* config: GenerateAnnounceKey, called by GenerateHandler
Generate ==
  /\ seqPeers <= MaxKeys
  /\ peers' = peers \cup {[id |-> seqPeers, announce_key |-> KeyNames[seqPeers],
                           snatched |-> 0, downloaded |-> 0, uploaded |-> 0,
                           created_time |-> now]}
  /\ seqPeers' = seqPeers + 1
  /\ UNCHANGED <<infohashes, announces, seqHashes, rdb, faultsLeft>>
  /\ HandlersUnchanged
  /\ ClockUnchanged

PrunableAnyCreation ==
  {p \in peers :
     \A r \in announces : r.peers_id = p.id => r.last_announce < now - PruneInterval}

\* prune: the peers PruneAnnounceKeys deletes
Prunable ==
  {p \in peers :
     /\ \A r \in announces : r.peers_id = p.id => r.last_announce < now - PruneInterval
     /\ p.created_time < now - PruneInterval}

CascadePeersNone(ps) == announces

CascadePeers(ps) == {r \in announces : \E p \in ps : p.id = r.peers_id}

\* prune: the names PruneAnnounceKeys unlinks for the deleted keys
PrunedNames(keys) == {PruneName(k) : k \in keys}

\* prune: one call of PruneAnnounceKeys(ctx, conf).  kind "ok": the DELETE and
\* the Unlink succeed; "query": the DELETE fails (also when ctx is cancelled)
\* and nothing is deleted; "unlink": the DELETE has deleted rows and the
\* Unlink of their keys fails
PruneKinds == {"ok", "query", "unlink"}

PruneCall(kind) ==
  LET keys == {p.announce_key : p \in Prunable} IN
  /\ kind = "unlink" => keys # {}
  /\ peers' = IF kind = "query" THEN peers ELSE peers \ Prunable
  /\ announces' = IF kind = "query" THEN announces ELSE CascadePeers(peers')
  /\ rdb' = IF kind = "ok" THEN Unlink(rdb, PrunedNames(keys)) ELSE rdb
  /\ pruneOut' = [ran |-> TRUE,
                  err |-> CASE kind = "ok" -> ""
                            [] kind = "query" -> "postgres"
                            [] kind = "unlink" -> "redis",
                  keys |-> IF kind = "query" THEN {} ELSE keys]
  /\ scrapeOut' = [files |-> {}]
  /\ apiOut' = NoAPI
  /\ UNCHANGED <<infohashes, seqPeers, seqHashes, conf, now, ticksLeft>>
  /\ HandlersUnchanged

\* a call of PruneAnnounceKeys that returns nil
PruneAnnounceKeys ==
  /\ PruneCall("ok")
  /\ UNCHANGED <<faultsLeft, job>>

\* a call of PruneAnnounceKeys in which the store or the cache fails
PruneAnnounceKeysError ==
  /\ faultsLeft > 0
  /\ faultsLeft' = faultsLeft - 1
  /\ \E kind \in {"query", "unlink"} : PruneCall(kind)
  /\ UNCHANGED job

\* prune: PruneTimer.  pc: "off" before the call, "wait" in `for range
\* ticker.C`, "send" in `errCh <- err`, "exit" after the return; tick: a tick is
\* in the ticker's channel (capacity 1); cancelled: ctx is cancelled
JobOff == [pc |-> "off", tick |-> FALSE, cancelled |-> FALSE]

\* the frame of the steps of the job that call nothing
JobOnly ==
  /\ UNCHANGED <<rdb, faultsLeft, conf, now, ticksLeft>>
  /\ scrapeOut' = [files |-> {}]
  /\ pruneOut' = NoPrune
  /\ apiOut' = NoAPI
  /\ StoreUnchanged
  /\ HandlersUnchanged

\* PruneTimer is called: the ticker is made and the goroutine started
PruneTimer ==
  /\ job.pc = "off"
  /\ job' = [job EXCEPT !.pc = "wait"]
  /\ JobOnly

\* the ticker, which is never stopped, fires; it drops the tick when the
\* channel is full
TimerFires ==
  /\ job.pc # "off"
  /\ job' = [job EXCEPT !.tick = TRUE]
  /\ JobOnly

\* the owner of ctx cancels it
CancelJob ==
  /\ job.pc # "off"
  /\ job' = [job EXCEPT !.cancelled = TRUE]
  /\ JobOnly

JobRunNoReturn(kind) ==
  /\ job.pc = "wait"
  /\ job.tick
  /\ job.cancelled => kind = "query"
  /\ IF kind # "ok" /\ ~job.cancelled
     THEN faultsLeft > 0 /\ faultsLeft' = faultsLeft - 1
     ELSE UNCHANGED faultsLeft
  /\ PruneCall(kind)
  /\ job' = [job EXCEPT !.tick = FALSE]

\* the goroutine receives the tick and calls PruneAnnounceKeys(ctx, conf); it
\* goes on to the next tick when the call returns nil and to the send of the
\* error otherwise.  With ctx cancelled the query fails and deletes nothing.
JobRun(kind) ==
  /\ job.pc = "wait"
  /\ job.tick
  /\ job.cancelled => kind = "query"
  /\ IF kind # "ok" /\ ~job.cancelled
     THEN faultsLeft > 0 /\ faultsLeft' = faultsLeft - 1
     ELSE UNCHANGED faultsLeft
  /\ PruneCall(kind)
  /\ job' = [job EXCEPT !.tick = FALSE, !.pc = IF kind = "ok" THEN "wait" ELSE "send"]

\* the error is received from errCh and the goroutine returns
JobReturn ==
  /\ job.pc = "send"
  /\ job' = [job EXCEPT !.pc = "exit"]
  /\ JobOnly

\* scrape: ScrapeHandler; filter is the set of info_hash query parameters,
\* {} when there is none
NoScrape == [files |-> {}]

ScrapeFiles(filter) ==
  LET recent == {r \in announces : Recent(r) /\ r.event # Stopped}
      of(i) == {r \in recent : r.info_hash_id = i.id}
  IN {[info_hash |-> i.info_hash, name |-> i.name, downloaded |-> i.downloaded,
       incomplete |-> Cardinality({r \in of(i) : r.amount_left > 0}),
       complete |-> Cardinality({r \in of(i) : r.amount_left = 0})] :
        i \in {x \in infohashes : filter = {} \/ x.info_hash \in filter}}

Scrape(filter) ==
  /\ scrapeOut' = [files |-> ScrapeFiles(filter)]
  /\ pruneOut' = NoPrune
  /\ apiOut' = NoAPI
  /\ UNCHANGED <<rdb, faultsLeft, conf, now, ticksLeft, job>>
  /\ StoreUnchanged
  /\ HandlersUnchanged

\* the bytes of an info-hash: "a" is 97, "b" 98, "+" 43
HashBytes(h) ==
  IF h = "aaaa" THEN <<97, 97, 97, 97>>
  ELSE IF h = "bbbb" THEN <<98, 98, 98, 98>>
  ELSE <<97, 43, 97, 97>>

\* net/url: a byte that QueryEscape leaves alone (letters, digits, - _ . ~)
Unreserved(c) == c \in (48..57) \cup (65..90) \cup (97..122) \cup {45, 95, 46, 126}

upperhex == <<48, 49, 50, 51, 52, 53, 54, 55, 56, 57, 65, 66, 67, 68, 69, 70>>

ishex(c) == c \in (48..57) \cup (65..70) \cup (97..102)

unhex(c) ==
  IF c \in 48..57 THEN c - 48
  ELSE IF c \in 97..102 THEN c - 97 + 10
  ELSE c - 65 + 10

\* url.QueryEscape, as the clients' FormatRequest applies it to an info-hash
RECURSIVE QueryEscape(_)
QueryEscape(s) ==
  IF s = <<>> THEN <<>>
  ELSE (IF Unreserved(s[1]) THEN <<s[1]>>
        ELSE IF s[1] = 32 THEN <<43>>
        ELSE <<37, upperhex[(s[1] \div 16) + 1], upperhex[(s[1] % 16) + 1]>>)
         \o QueryEscape(Tail(s))

\* url.QueryUnescape: err # nil
QueryUnescapeErr(s) ==
  \E i \in 1..Len(s) :
    s[i] = 37 /\ (i + 2 > Len(s) \/ ~ishex(s[i + 1]) \/ ~ishex(s[i + 2]))

\* url.QueryUnescape: the value when err = nil
RECURSIVE QueryUnescape(_)
QueryUnescape(s) ==
  IF s = <<>> THEN <<>>
  ELSE IF s[1] = 37
  THEN <<16 * unhex(s[2]) + unhex(s[3])>> \o QueryUnescape(SubSeq(s, 4, Len(s)))
  ELSE IF s[1] = 43 THEN <<32>> \o QueryUnescape(Tail(s))
  ELSE <<s[1]>> \o QueryUnescape(Tail(s))

\* r.URL.Query()["info_hash"] for the raw query value raw; "" on a bad escape
QueryValue(raw) == IF QueryUnescapeErr(raw) THEN <<>> ELSE QueryUnescape(raw)

\* the info-hash with these bytes; "" stands for bytes of no info-hash
HashOfBytes(bs) ==
  IF \E h \in Hashes : HashBytes(h) = bs
  THEN CHOOSE h \in Hashes : HashBytes(h) = bs
  ELSE ""

\* the parameter of `info_hash = $n` for one value of r.URL.Query()["info_hash"]:
\* the handler unescapes the value once more, and uses "" on an error
ScrapeParam(value) ==
  IF QueryUnescapeErr(value) THEN "" ELSE HashOfBytes(QueryUnescape(value))

\* scrape with the query ?info_hash=..&info_hash=.. for the info-hashes hs
ScrapeQuery(hs) ==
  /\ hs # {}
  /\ Scrape({ScrapeParam(QueryValue(QueryEscape(HashBytes(h)))) : h \in hs})

\* time passes
Tick(d) ==
  /\ ticksLeft > 0
  /\ ticksLeft' = ticksLeft - 1
  /\ now' = now + d
  /\ scrapeOut' = NoScrape
  /\ pruneOut' = NoPrune
  /\ apiOut' = NoAPI
  /\ UNCHANGED <<conf, rdb, faultsLeft, job>>
  /\ StoreUnchanged
  /\ HandlersUnchanged

(***************************************************************************)
(* Requests.                                                               *)
(***************************************************************************)
Remote == [parts |-> 2, ip |-> <<192, 0, 2, 1>>]
Port == <<"6", "8", "8", "1">>

Request(k, h, numwant, left, up, down, ev) ==
  [id |-> k, info_hash |-> h, port |-> Port, remote |-> Remote,
   numwant |-> Itoa(numwant), left |-> Itoa(left), uploaded |-> Itoa(up),
   downloaded |-> Itoa(down), event |-> ev]

\* the keys a client can hold: the issued ones and one that was never issued
KnownKeys == {KeyNames[i] : i \in 1..(seqPeers - 1)} \cup {BogusKey}

(***************************************************************************)
(* Initial states shared by the specifications.                            *)
(***************************************************************************)
\* the peers table after GenerateAnnounceKey has been called n times
IssuedPeers(n) ==
  {[id |-> i, announce_key |-> KeyNames[i], snatched |-> 0, downloaded |-> 0,
    uploaded |-> 0, created_time |-> 0] : i \in 1..n}

\* n keys are issued, the other tables and the cache are empty, the handlers
\* in On are idle
InitStore(On, n) ==
  /\ now = 0
  /\ peers = IssuedPeers(n)
  /\ infohashes = {}
  /\ announces = {}
  /\ seqPeers = n + 1
  /\ seqHashes = 1
  /\ rdb = [c \in CacheNames |-> "nil"]
  /\ pc = [p \in Procs |-> IF p \in On THEN "idle" ELSE "off"]
  /\ ann = [p \in Procs |-> NoAnnounce]
  /\ body = [p \in Procs |-> <<>>]
  /\ sel = [p \in Procs |-> {}]
  /\ seen = [p \in Procs |-> NotSeen]
  /\ last = [p \in Procs |-> <<0, 0>>]
  /\ errs = [p \in Procs |-> {}]
  /\ scrapeOut = NoScrape
  /\ hist = [k \in Keys \cup {BogusKey} |-> <<>>]
  /\ pruneOut = NoPrune
  /\ job = JobOff
  /\ timedOut = [p \in Procs |-> FALSE]
  /\ apiOut = NoAPI

(***************************************************************************)
(* Spec: admission and the key and info-hash lifecycle.  Announces, the    *)
(* admin API, prune and the clock interleave.                              *)
(***************************************************************************)
Init ==
  /\ InitStore({1}, 0)
  /\ conf \in [Algorithm : {"NumwantPeers"}, DisableAllowlist : BOOLEAN,
               Authorization : {"secret"}]
  /\ annLeft = MaxAnnounces
  /\ faultsLeft = 0
  /\ ticksLeft = MaxTicks

Requests == {Request(k, "aaaa", 1, 0, 0, 0, "") : k \in KnownKeys}

\* the requests of Spec carry no event, so writeAnnounce skips the update of
\* infohashes
Announce ==
  \E p \in Procs :
    \/ \E r \in Requests : Begin(p, r)
    \/ SendReply(p)
    \/ WriteRead(p)
    \/ WritePeers(p)
    \/ WriteAnnounces(p)
    \/ Return(p)

Next ==
  \/ Announce
  \/ Generate
  \/ PostInfohash("aaaa", "aaaa", "secret")
  \/ DeleteInfohash("aaaa", "secret")
  \/ PruneAnnounceKeys
  \/ Tick(PruneInterval + 1)

Spec == Init /\ [][Next]_vars

(***************************************************************************)
(* Properties.                                                             *)
(***************************************************************************)
\* handler p has written a peer list
HasPeerList(p) == \E i \in 1..Len(body[p]) : body[p][i].dict = "peers"

\* handler p has written a failure reason
HasFailure(p) == \E i \in 1..Len(body[p]) : body[p][i].dict = "failure"

\* checkAnnounce has returned nil for the announce of handler p
Admitted(p) ==
  \/ pc[p] \in {"reply", "wread", "wpeers", "winfo", "wann"}
  \/ pc[p] = "done" /\ errs[p] \cap {"parse", "check"} = {}

\* C1: an announce made with a key that has no peer row at admission never
\* receives a peer list.
C1_UntrackedNeverGetsPeerList ==
  \A p \in Procs : HasPeerList(p) => seen[p].peer

\* C2: a prune run that deletes peer rows leaves no tracked-key cache entry
\* for a deleted announce key.
C2_PruneUnlinksDeletedKeys ==
  [][\A q \in peers :
       q \notin peers' => rdb'[AnnounceName(q.announce_key)] = "nil"]_vars

\* C3: with the allowlist enabled, an admitted announce has an info-hash row
\* at the time it is admitted.
C3_AdmittedHasInfohashRow ==
  \A p \in Procs : (~conf.DisableAllowlist /\ Admitted(p)) => seen[p].hash

(***************************************************************************)
(* SpecSeq: one client announces one info-hash with counters that never    *)
(* decrease, one announce after the other.                                 *)
(***************************************************************************)
\* the largest uploaded or downloaded value a request reports
MaxValue == 2

\* the counters of the key's latest announce, zeros before the first
Latest(k) ==
  IF hist[k] = <<>> THEN <<0, 0>>
  ELSE <<hist[k][Len(hist[k])][1], hist[k][Len(hist[k])][2]>>

InitSeq ==
  /\ InitStore({1}, 1)
  /\ conf \in [Algorithm : {"NumwantPeers"}, DisableAllowlist : {TRUE},
               Authorization : {"secret"}]
  /\ annLeft = MaxAnnounces
  /\ faultsLeft = 0
  /\ ticksLeft = 0

\* the requests of key k whose counters are not below its latest ones
RequestsOf(k) ==
  {Request(k, "aaaa", 1, 0, up, down, ev) :
     up \in {v \in 0..MaxValue : v >= Latest(k)[1]},
     down \in {v \in 0..MaxValue : v >= Latest(k)[2]},
     ev \in {"", "stopped"}}

RequestsSeq == UNION {RequestsOf(k) : k \in KnownKeys \ {BogusKey}}

NextSeq ==
  \E p \in Procs :
       \/ \E r \in RequestsSeq : Begin(p, r)
       \/ SendReply(p)
       \/ WriteRead(p)
       \/ WritePeers(p)
       \/ WriteAnnounces(p)
       \/ Return(p)

SpecSeq == InitSeq /\ [][NextSeq]_vars

\* the i-th counter summed over the announces of h that were stopped and
\* were followed by another announce
RECURSIVE StoppedBefore(_, _)
StoppedBefore(h, i) ==
  IF Len(h) <= 1 THEN 0
  ELSE LET front == SubSeq(h, 1, Len(h) - 1)
           e == front[Len(front)]
       IN StoppedBefore(front, i) + (IF e[3] = Stopped THEN e[i] ELSE 0)

InitRace ==
  /\ InitStore(Procs, 1)
  /\ conf \in [Algorithm : {"NumwantPeers"}, DisableAllowlist : {TRUE},
               Authorization : {"secret"}]
  /\ annLeft = MaxAnnounces
  /\ faultsLeft = 0
  /\ ticksLeft = 0

\* uploaded takes every value; downloaded runs the opposite way, so that one
\* of the two counters of a later announce is below the baseline
RequestsRace ==
  {Request(KeyNames[1], "aaaa", 1, 0, up, MaxValue - up, "") : up \in 0..MaxValue}

NextRace ==
  \E p \in Procs :
    \/ \E r \in RequestsRace : Begin(p, r)
    \/ SendReply(p)
    \/ WriteRead(p)
    \/ WritePeers(p)
    \/ WriteAnnounces(p)
    \/ Return(p)

SpecRace == InitRace /\ [][NextRace]_vars

\* the i-th total (1 uploaded, 2 downloaded) of the peer row of key k in table ps
Total(ps, k, i) ==
  LET q == CHOOSE x \in ps : x.announce_key = k
  IN IF i = 1 THEN q.uploaded ELSE q.downloaded

\* the i-th counter the announce of handler p reports
Reported(p, i) == IF i = 1 THEN ann[p].Uploaded ELSE ann[p].Downloaded

\* handler p runs its UPDATE peers in this step, after handler o has run its
\* own for the same key and info-hash, and both have read the same baseline
RaceStep(p, o) ==
  /\ p # o
  /\ pc[p] = "wpeers" /\ pc'[p] = "wann"
  /\ pc[o] \in {"wann", "done"} /\ errs[o] = {}
  /\ ann[o].Announce_key = ann[p].Announce_key
  /\ ann[o].Info_hash = ann[p].Info_hash
  /\ last[o] = last[p]

\* what the UPDATE peers of p adds when p is handled after o has finished:
\* its baseline is then the row that o has written
AfterOther(p, o, i) == Max2(0, Reported(p, i) - Reported(o, i))

\* C4 as stated: when two announces of one key for one info-hash compute their
\* deltas against the same baseline, the totals end no higher than after
\* handling the two one after the other.
C4_RaceNoHigherThanSequential ==
  [][\A p, o \in Procs : RaceStep(p, o) =>
       \A i \in {1, 2} :
         Total(peers', ann[p].Announce_key, i) - Total(peers, ann[p].Announce_key, i)
           <= AfterOther(p, o, i)]_vars

\* C4: when two announces of one key for one info-hash compute their deltas
\* against the same baseline b, each adds its own delta against b; when
\* neither reports less than b, the totals end no lower than after handling
\* the two one after the other and exceed that by the smaller of the two
\* deltas: the deviation is a one-shot over-count.
C4_RaceCountsBothFromBaseline ==
  [][\A p, o \in Procs : RaceStep(p, o) =>
       \A i \in {1, 2} :
         LET added == Total(peers', ann[p].Announce_key, i)
                        - Total(peers, ann[p].Announce_key, i)
             dp == Reported(p, i) - last[p][i]
             do == Reported(o, i) - last[o][i]
         IN /\ added = Max2(0, dp)
            /\ (dp >= 0 /\ do >= 0) => added = AfterOther(p, o, i) + Min2(dp, do)]_vars

\* both handlers have added a positive delta against the same positive
\* baseline
C4_Witness ==
  /\ pc[1] \in {"wann", "done"} /\ pc[2] \in {"wann", "done"}
  /\ errs[1] = {} /\ errs[2] = {}
  /\ ann[1].Announce_key = ann[2].Announce_key
  /\ ann[1].Info_hash = ann[2].Info_hash
  /\ last[1] = last[2]
  /\ last[1][1] > 0
  /\ ann[1].Uploaded > last[1][1]
  /\ ann[2].Uploaded > last[2][1]
  /\ Total(peers, ann[1].Announce_key, 1)
       = ann[1].Uploaded + ann[2].Uploaded - last[1][1]

(***************************************************************************)
(* SpecDone: two handlers serve announces of different keys for one        *)
(* info-hash, with and without event=completed; a statement of the writer  *)
(* may fail.                                                               *)
(***************************************************************************)
InitDone ==
  /\ InitStore(Procs, 2)
  /\ conf \in [Algorithm : {"NumwantPeers"}, DisableAllowlist : {TRUE},
               Authorization : {"secret"}]
  /\ annLeft = MaxAnnounces
  /\ faultsLeft = MaxFaults
  /\ ticksLeft = 0

\* handler p serves the announces of the p-th key
RequestsDone(p) ==
  {Request(KeyNames[p], "aaaa", 1, 0, 0, 0, ev) : ev \in {"", "completed"}}

NextDone ==
  \E p \in Procs :
    \/ \E r \in RequestsDone(p) : Begin(p, r)
    \/ SendReply(p)
    \/ WriteRead(p)
    \/ WritePeers(p)
    \/ WriteInfohash(p)
    \/ WriteAnnounces(p)
    \/ WriteError(p)
    \/ Return(p)

SpecDone == InitDone /\ [][NextDone]_vars

\* handler p runs the UPDATE infohashes of its writer in this step
Bumps(p) == pc[p] = "winfo" /\ pc'[p] = "wann"

\* in this step every info-hash row gains one download for each handler that
\* runs its UPDATE infohashes for that info-hash, and nothing else
CountsBumps ==
  \A i \in infohashes : \A j \in infohashes' :
    i.id = j.id =>
      j.downloaded = i.downloaded
        + Cardinality({p \in Procs : Bumps(p) /\ ann[p].Info_hash = i.info_hash})

InitStop ==
  /\ InitStore({1}, 3)
  /\ conf \in [Algorithm : {"NumwantPeers"}, DisableAllowlist : {TRUE},
               Authorization : {"secret"}]
  /\ annLeft = MaxAnnounces
  /\ faultsLeft = 0
  /\ ticksLeft = MaxTicks

\* the first key seeds, the others leech
RequestsStop ==
  {Request(k, "aaaa", 2, IF k = KeyNames[1] THEN 0 ELSE 1, 0, 0, ev) :
     k \in KnownKeys \ {BogusKey}, ev \in {"", "stopped"}}

NextStop ==
  \/ \E p \in Procs :
       \/ \E r \in RequestsStop : Begin(p, r)
       \/ SendReply(p)
       \/ WriteRead(p)
       \/ WritePeers(p)
       \/ WriteAnnounces(p)
       \/ Return(p)
  \/ Scrape({})
  \/ Scrape({"aaaa"})
  \/ Tick(StaleInterval + 1)

SpecStop == InitStop /\ [][NextStop]_vars

\* the announce rows of info-hash h whose event is stopped
StoppedRows(h) == {r \in RowsOfHash(h) : r.event = Stopped}

\* C9: a peer whose latest announce for an info-hash has event=stopped is not
\* among the peers a reply for that info-hash carries, and the scrape counts
\* complete and incomplete do not count it.
C9_StoppedExcluded ==
  [][/\ \A p \in Procs :
          (pc[p] = "reply" /\ pc'[p] = "wread") =>
            \A r \in StoppedRows(ann[p].Info_hash) : r.peers_id \notin sel'[p]
     /\ \A f \in scrapeOut'.files :
          f.complete + f.incomplete
            <= Cardinality(RowsOfHash(f.info_hash) \ StoppedRows(f.info_hash))]_vars

\* a reply carries a peer of a swarm in which another peer is stopped and
\* fresh, and a scrape of that swarm has counted a peer
C9_Witness ==
  /\ \E p \in Procs :
       /\ pc[p] = "wread"
       /\ sel[p] # {}
       /\ \E r \in StoppedRows(ann[p].Info_hash) : Recent(r)
  /\ \E f \in scrapeOut.files :
       /\ f.complete + f.incomplete > 0
       /\ \E r \in StoppedRows(f.info_hash) : Recent(r)

(***************************************************************************)
(* SpecFaults: announces, well-formed and not, while an operation of the   *)
(* store or of the cache may fail and a key may be pruned.                 *)
(***************************************************************************)
InitFaults ==
  /\ InitStore({1}, 1)
  /\ conf \in [Algorithm : {"NumwantPeers", "PeersForRatio"}, DisableAllowlist : {TRUE},
               Authorization : {"secret"}]
  /\ annLeft = MaxAnnounces
  /\ faultsLeft = MaxFaults
  /\ ticksLeft = MaxTicks

\* well-formed requests of the issued key and of a key never issued, and a
\* request whose left is not a number
RequestsFaults ==
  {Request(k, "aaaa", 1, 0, 0, 0, "") : k \in KnownKeys}
    \cup {[Request(KeyNames[1], "aaaa", 1, 0, 0, 0, "") EXCEPT !.left = <<"x">>]}

NextFaults ==
  \/ \E p \in Procs :
       \/ \E r \in RequestsFaults : Begin(p, r)
       \/ SendReply(p)
       \/ SendReplyError(p)
       \/ WriteRead(p)
       \/ WritePeers(p)
       \/ WriteAnnounces(p)
       \/ WriteError(p)
       \/ Return(p)
  \/ PruneAnnounceKeys
  \/ Tick(PruneInterval + 1)

SpecFaults == InitFaults /\ [][NextFaults]_vars

\* C6: whenever a step of handling an announce has failed (parsing, admission,
\* the selection or the peer count, the write), the response body of the
\* finished handler contains a failure reason.
C6_FailureHasReason ==
  \A p \in Procs : (pc[p] = "done" /\ errs[p] # {}) => HasFailure(p)

(***************************************************************************)
(* SpecAlg: a swarm of two seeders and one client that completes, leeches  *)
(* and asks for few or several peers, under each peering algorithm.        *)
(***************************************************************************)
InitAlg ==
  /\ InitStore({1}, 3)
  /\ conf \in [Algorithm : Algorithms, DisableAllowlist : {TRUE},
               Authorization : {"secret"}]
  /\ annLeft = MaxAnnounces + 1
  /\ faultsLeft = 0
  /\ ticksLeft = 0

RequestsAlg ==
  {Request(k, "aaaa", 6, 0, 0, 0, "") : k \in {KeyNames[1], KeyNames[2]}}
    \cup {Request(KeyNames[3], "aaaa", numwant, left, 0, 0, ev) :
            numwant \in {1, 6}, left \in {0, 1}, ev \in {"", "completed"}}

NextAlg ==
  \E p \in Procs :
    \/ \E r \in RequestsAlg : Begin(p, r)
    \/ SendReply(p)
    \/ WriteRead(p)
    \/ WritePeers(p)
    \/ WriteInfohash(p)
    \/ WriteAnnounces(p)
    \/ Return(p)

SpecAlg == InitAlg /\ [][NextAlg]_vars

\* C7: under every peering algorithm the peers string of a reply has length
\* 6*k for some k that is at most the numwant of the announce.
C7_PeersWithinNumwant ==
  \A p \in Procs : \A i \in 1..Len(body[p]) :
    body[p][i].dict = "peers" =>
      /\ Len(body[p][i].peers) % 6 = 0
      /\ Len(body[p][i].peers) \div 6 <= ann[p].Numwant

\* C10: every announce row references an existing peer row and an existing
\* info-hash row.
C10_AnnouncesReferenceRows ==
  \A r \in announces :
    /\ \E q \in peers : q.id = r.peers_id
    /\ \E i \in infohashes : i.id = r.info_hash_id

\* a handler has run its writer to the end for a key or an info-hash whose row
\* was deleted meanwhile, and rows of other announces were cascaded away
C10_Witness ==
  \E p \in Procs :
    /\ pc[p] = "done"
    /\ errs[p] = {}
    /\ HasPeerList(p)
    /\ \/ ~\E q \in peers : q.announce_key = ann[p].Announce_key
       \/ ~\E i \in infohashes : i.info_hash = ann[p].Info_hash

(***************************************************************************)
(* One announce row per (peer, info-hash).                                 *)
(***************************************************************************)
\* the rows of table as that belong to the pair (peers_id, info_hash_id) of r
RowsOfPair(as, r) ==
  {q \in as : q.peers_id = r.peers_id /\ q.info_hash_id = r.info_hash_id}

\* handler p runs the last statement of its writer in this step
Upserts(p) == pc[p] = "wann" /\ pc'[p] = "done" /\ "write" \notin errs'[p]

\* C11: there is at most one announce row per (peer, info-hash) pair under
\* any interleaving of announces, and the write of a re-announce leaves the
\* number of rows as it is and puts its own values into the row of the pair.
C11_OneRowPerPair ==
  [][/\ \A r \in announces' : RowsOfPair(announces', r) = {r}
     /\ \A p \in Procs :
          (Upserts(p) /\ RowsOfKey(ann[p].Announce_key) \cap RowsOfHash(ann[p].Info_hash) # {})
            => /\ Cardinality(announces') = Cardinality(announces)
               /\ \E r \in announces' :
                    /\ r.uploaded = ann[p].Uploaded
                    /\ r.downloaded = ann[p].Downloaded
                    /\ RowsOfPair(announces, r) # {}]_vars

\* two handlers have both written the row of the same key and info-hash with
\* different values, and one row is there
C11_Witness ==
  /\ pc[1] = "done" /\ pc[2] = "done"
  /\ errs[1] = {} /\ errs[2] = {}
  /\ ann[1].Announce_key = ann[2].Announce_key
  /\ ann[1].Info_hash = ann[2].Info_hash
  /\ ann[1].Uploaded # ann[2].Uploaded
  /\ Cardinality(announces) = 1

(***************************************************************************)
(* SpecMono: one client announces one info-hash with counters that go up   *)
(* and down, with and without an event.                                    *)
(***************************************************************************)
InitMono ==
  /\ InitStore({1}, 1)
  /\ conf \in [Algorithm : {"NumwantPeers"}, DisableAllowlist : {TRUE},
               Authorization : {"secret"}]
  /\ annLeft = MaxAnnounces
  /\ faultsLeft = 0
  /\ ticksLeft = 0

\* uploaded takes every value, downloaded runs the opposite way; one request
\* reports a negative counter
RequestsMono ==
  {Request(KeyNames[1], "aaaa", 1, 0, up, MaxValue - up, ev) :
     up \in 0..MaxValue, ev \in {"", "stopped", "completed"}}
    \cup {Request(KeyNames[1], "aaaa", 1, 0, 0 - 1, 0, "")}

NextMono ==
  \E p \in Procs :
    \/ \E r \in RequestsMono : Begin(p, r)
    \/ SendReply(p)
    \/ WriteRead(p)
    \/ WritePeers(p)
    \/ WriteInfohash(p)
    \/ WriteAnnounces(p)
    \/ Return(p)

SpecMono == InitMono /\ [][NextMono]_vars

\* handler p runs the UPDATE peers of its writer in this step
WritesPeers(p) == pc[p] = "wpeers" /\ pc'[p] \in {"winfo", "wann"}

\* C12: the snatched, downloaded and uploaded totals of a peer row never
\* decrease, and an announce that reports a counter below the baseline its
\* writer has read adds nothing to the total of that counter.
C12_TotalsNeverDecrease ==
  [][/\ \A q \in peers : \A n \in peers' :
          q.id = n.id =>
            /\ n.snatched >= q.snatched
            /\ n.downloaded >= q.downloaded
            /\ n.uploaded >= q.uploaded
     /\ \A p \in Procs : \A i \in {1, 2} :
          (WritesPeers(p) /\ Reported(p, i) < last[p][i]) =>
            Total(peers', ann[p].Announce_key, i) = Total(peers, ann[p].Announce_key, i)]_vars

\* the writer has run its UPDATE peers for an announce that reports less
\* uploaded than the positive baseline and more downloaded
C12_Witness ==
  /\ pc[1] = "wann"
  /\ last[1][1] > 0
  /\ ann[1].Uploaded < last[1][1]
  /\ ann[1].Downloaded > last[1][2]
  /\ Total(peers, ann[1].Announce_key, 1) > 0


(***************************************************************************)
(* SpecPrune: the prune of announce keys.  Two keys were issued at time 0; *)
(* they announce, three months pass, and PruneAnnounceKeys is called at    *)
(* any moment.                                                             *)
(***************************************************************************)
InitPrune ==
  /\ InitStore({1}, 2)
  /\ conf \in [Algorithm : {"NumwantPeers"}, DisableAllowlist : {TRUE},
               Authorization : {"secret"}]
  /\ annLeft = MaxAnnounces
  /\ faultsLeft = 0
  /\ ticksLeft = MaxTicks

RequestsPrune == {Request(KeyNames[i], "aaaa", 1, 0, 0, 0, "") : i \in 1..2}

NextPrune ==
  \/ \E p \in Procs :
       \/ \E r \in RequestsPrune : Begin(p, r)
       \/ SendReply(p)
       \/ WriteRead(p)
       \/ WritePeers(p)
       \/ WriteAnnounces(p)
       \/ Return(p)
  \/ PruneAnnounceKeys
  \/ Tick(PruneInterval + 1)

SpecPrune == InitPrune /\ [][NextPrune]_vars

\* the peer rows that are old and have no announce within PruneInterval
OldAndSilent ==
  {q \in peers :
     /\ now - q.created_time > PruneInterval
     /\ ~\E r \in announces : /\ r.peers_id = q.id
                              /\ now - r.last_announce <= PruneInterval}

\* C13: a prune run that returns nil deletes exactly the peer rows that were
\* created more than PruneInterval ago and have no announce whose
\* last_announce is within PruneInterval, together with their announces;
\* every other peer row and every announce of another peer stays as it was.
C13_PruneDeletesExactlyOldSilent ==
  [][(pruneOut'.ran /\ pruneOut'.err = "")
       => /\ peers \ peers' = OldAndSilent
          /\ peers' \subseteq peers
          /\ announces' = {r \in announces : \E q \in peers \ OldAndSilent : q.id = r.peers_id}
          /\ pruneOut'.keys = {q.announce_key : q \in OldAndSilent}]_vars

\* one prune run has deleted a key with an old announce and kept the other
\* key, which announced after the three months, and its announce
C13_Witness ==
  /\ pruneOut.ran
  /\ Cardinality(pruneOut.keys) = 1
  /\ Cardinality(peers) = 1
  /\ Cardinality(announces) = 1
  /\ hist[KeyNames[1]] # <<>>
  /\ hist[KeyNames[2]] # <<>>


(***************************************************************************)
(* SpecJob: the prune job.  PruneTimer is called, its ticker fires, its    *)
(* context is cancelled at any moment, and the store or the cache may fail *)
(* in a prune run.  One key announces before or after three months pass.   *)
(* The goroutine's steps and the ticker are fair: a goroutine that can run *)
(* runs, and the ticker keeps firing.  Nothing in PruneTimer makes a       *)
(* receiver of errCh exist, so the receive is not fair.                    *)
(***************************************************************************)
InitJob ==
  /\ InitStore({1}, 1)
  /\ conf \in [Algorithm : {"NumwantPeers"}, DisableAllowlist : {TRUE},
               Authorization : {"secret"}]
  /\ annLeft = MaxAnnounces - 1
  /\ faultsLeft = MaxFaults
  /\ ticksLeft = MaxTicks

RequestsJob == {Request(KeyNames[1], "aaaa", 1, 0, 0, 0, "")}

NextJob ==
  \/ \E p \in Procs :
       \/ \E r \in RequestsJob : Begin(p, r)
       \/ SendReply(p)
       \/ WriteRead(p)
       \/ WritePeers(p)
       \/ WriteAnnounces(p)
       \/ Return(p)
  \/ PruneTimer
  \/ TimerFires
  \/ CancelJob
  \/ \E kind \in PruneKinds : JobRun(kind)
  \/ JobReturn
  \/ Tick(PruneInterval + 1)

SpecJob ==
  /\ InitJob
  /\ [][NextJob]_vars
  /\ WF_vars(TimerFires)
  /\ WF_vars(\E kind \in PruneKinds : JobRun(kind))

JobDeletes == pruneOut'.ran /\ (peers' # peers \/ announces' # announces)

\* C16: once the job's context is cancelled no step of the job deletes a
\* row, and the job's goroutine terminates.
C16_CancelStopsJob ==
  /\ [][job.cancelled => ~JobDeletes]_vars
  /\ (job.cancelled ~> job.pc = "exit")


(***************************************************************************)
(* SpecTimeout: announces under the whole-request timeout of the server.   *)
(* One key reports a completed download, so that writeAnnounce runs all    *)
(* its statements, and the timeout may fire at any point of the handler.   *)
(***************************************************************************)
InitTimeout ==
  /\ InitStore({1}, 1)
  /\ conf \in [Algorithm : {"NumwantPeers"}, DisableAllowlist : {TRUE},
               Authorization : {"secret"}]
  /\ annLeft = MaxAnnounces
  /\ faultsLeft = 0
  /\ ticksLeft = 0

RequestsTimeout ==
  {Request(KeyNames[1], "aaaa", 1, 0, up, 0, ev) : up \in 1..MaxValue, ev \in {"", "completed"}}

NextTimeout ==
  \E p \in Procs :
    \/ \E r \in RequestsTimeout : Begin(p, r)
    \/ SendReply(p)
    \/ WriteRead(p)
    \/ WritePeers(p)
    \/ WriteInfohash(p)
    \/ WriteAnnounces(p)
    \/ Timeout(p)
    \/ Return(p)

SpecTimeout == InitTimeout /\ [][NextTimeout]_vars

\* C15: once its request has timed out, no step of a handler changes the
\* store: the statements in flight are aborted and no further one starts.
C15_TimedOutStopsWriting ==
  [][\A p \in Procs :
       (timedOut[p] /\ pc'[p] # pc[p])
         => (peers' = peers /\ infohashes' = infohashes /\ announces' = announces)]_vars


(***************************************************************************)
(* SpecCache: admission with a failing cache.  One key is issued, the      *)
(* info-hash is added and deleted, and in each announce one operation of   *)
(* checkAnnounce may fail, with and without the allowlist.                 *)
(***************************************************************************)
InitCache ==
  /\ InitStore({1}, 1)
  /\ conf \in [Algorithm : {"NumwantPeers"}, DisableAllowlist : BOOLEAN,
               Authorization : {"secret"}]
  /\ annLeft = MaxAnnounces - 1
  /\ faultsLeft = MaxFaults
  /\ ticksLeft = 0

NextCache ==
  \/ \E p \in Procs :
       \/ \E r \in Requests : Begin(p, r)
       \/ SendReply(p)
       \/ WriteRead(p)
       \/ WritePeers(p)
       \/ WriteAnnounces(p)
       \/ Return(p)
  \/ PostInfohash("aaaa", "aaaa", "secret")
  \/ DeleteInfohash("aaaa", "secret")

SpecCache == InitCache /\ [][NextCache]_vars

\* the operations of checkAnnounce on the cache
CacheFaults == {"get_key", "set_key", "get_hash", "set_hash"}

\* C17: whichever cache operations fail in an admission, checkAnnounce
\* returns no error for them; a failed read of the key gives the answer of
\* the query on peers, a failed read of the info-hash gives the answer of the
\* query on infohashes (or admits, without the allowlist), and a failed write
\* leaves the outcome as it is without the failure.
C17_CacheErrorsFallThrough ==
  \A r \in Requests : \A f \in SUBSET CacheFaults :
    LET a == parseAnnounce(r)
        c == checkAnnounce(a, f)
        inPeers == \E q \in peers : q.announce_key = a.Announce_key
        inHashes == \E i \in infohashes : i.info_hash = a.Info_hash
    IN /\ c.res # "error"
       /\ "get_key" \in f => (c.res = "untracked" <=> ~inPeers)
       /\ ("get_hash" \in f /\ c.res # "untracked")
            => c.res = (IF conf.DisableAllowlist \/ inHashes THEN "ok" ELSE "notallowed")
       /\ c.res = checkAnnounce(a, f \ {"set_key", "set_hash"}).res

\* an announce was admitted although the write of its key to the cache failed
C17_Witness ==
  /\ pc[1] = "reply"
  /\ errs[1] = {}
  /\ faultsLeft < MaxFaults
  /\ rdb[AnnounceName(ann[1].Announce_key)] = "nil"


(***************************************************************************)
(* SpecAuth: the authorized admin endpoints.  The secret is set or unset;  *)
(* requests carry the secret, another value or no Authorization header;    *)
(* one key announces the info-hash the requests add and delete.            *)
(***************************************************************************)
Authorizations == {"", "secret", "badapikey"}

InitAuth ==
  /\ InitStore({1}, 1)
  /\ conf \in [Algorithm : {"NumwantPeers"}, DisableAllowlist : {FALSE},
               Authorization : {"", "secret"}]
  /\ annLeft = MaxAnnounces - 1
  /\ faultsLeft = 0
  /\ ticksLeft = 0

RequestsAuth == {Request(KeyNames[1], "aaaa", 1, 0, 0, 0, "")}

NextAuth ==
  \/ \E p \in Procs :
       \/ \E r \in RequestsAuth : Begin(p, r)
       \/ SendReply(p)
       \/ WriteRead(p)
       \/ WritePeers(p)
       \/ WriteAnnounces(p)
       \/ Return(p)
  \/ \E authorization \in Authorizations :
       \/ PostInfohash("aaaa", "aaaa", authorization)
       \/ PostTorrentFile("bbbb", "bbbb", authorization)
       \/ DeleteInfohash("aaaa", authorization)

SpecAuth == InitAuth /\ [][NextAuth]_vars

\* C18: a request to an authorized admin endpoint changes the store only if
\* the configured secret is not empty and the request's Authorization header
\* equals it; with the secret unset every such request is answered 403 and
\* changes nothing.
C18_AdminNeedsSecret ==
  [][apiOut'.code # 0
       => /\ (infohashes' # infohashes \/ announces' # announces \/ peers' # peers)
               => (conf.Authorization # "" /\ apiOut'.authorization = conf.Authorization)
          /\ conf.Authorization = ""
               => (apiOut'.code = StatusForbidden /\ infohashes' = infohashes
                   /\ announces' = announces /\ peers' = peers)]_vars

\* an authorized delete has removed the info-hash and, by the cascade, the
\* announce of the key
C18_Witness ==
  /\ apiOut.code = StatusOK
  /\ apiOut.authorization = "secret"
  /\ infohashes = {}
  /\ announces = {}
  /\ hist[KeyNames[1]] # <<>>


\* the reply sendReply has just written for handler p
Replies(p) == pc[p] = "reply" /\ pc'[p] = "wread" /\ "reply" \notin errs'[p]

\* C19: the peer list of a reply holds one endpoint per selected announce
\* row, and no selected row is a row of the announcing key.
C19_NoOwnRowInPeerList ==
  [][\A p \in Procs :
       Replies(p)
         => /\ \A r \in RowsOfKey(ann[p].Announce_key) : r.peers_id \notin sel'[p]
            /\ Len(body'[p][Len(body'[p])].peers) = 6 * Cardinality(sel'[p])]_vars

\* a key that has a fresh, not stopped row of its own in the swarm gets a
\* reply with another peer
C19_Witness ==
  /\ pc[1] = "wread"
  /\ sel[1] # {}
  /\ \E r \in RowsOfKey(ann[1].Announce_key) \cap RowsOfHash(ann[1].Info_hash) :
       Recent(r) /\ r.event # Stopped


(***************************************************************************)
(* SpecStale: two keys, a seeder and a leecher, announce one info-hash     *)
(* under each algorithm of handler_algorithms.go; the swarm is scraped,    *)
(* and more than StaleInterval passes between announces.                   *)
(***************************************************************************)
InitStale ==
  /\ InitStore({1}, 2)
  /\ conf \in [Algorithm : Algorithms \ {"PeersForRatio"}, DisableAllowlist : {TRUE},
               Authorization : {"secret"}]
  /\ annLeft = MaxAnnounces
  /\ faultsLeft = 0
  /\ ticksLeft = MaxTicks

RequestsStale ==
  {Request(KeyNames[i], "aaaa", 2, i - 1, 0, 0, "") : i \in 1..2}

NextStale ==
  \/ \E p \in Procs :
       \/ \E r \in RequestsStale : Begin(p, r)
       \/ SendReply(p)
       \/ WriteRead(p)
       \/ WritePeers(p)
       \/ WriteAnnounces(p)
       \/ Return(p)
  \/ Scrape({})
  \/ Tick(StaleInterval + 1)

SpecStale == InitStale /\ [][NextStale]_vars

\* an announce row whose last_announce is older than StaleInterval
Stale(r) == now - r.last_announce > StaleInterval

\* what an algorithm gives a client when no announce row is counted
OnNoRows(a) ==
  CASE conf.Algorithm = "NumwantPeers" -> {a.Numwant}
    [] conf.Algorithm \in {"PeersForAnnounces", "PeersForSeeds"} ->
         {IF a.Numwant <= 0 THEN a.Numwant ELSE 1}
    [] conf.Algorithm = "PeersForGoodSeeds" ->
         IF a.Numwant = 0 THEN {0} ELSE smoothFunction(0, a.Numwant, minimumPeers)

LeavesReply(p) == pc[p] = "reply" /\ pc'[p] # "reply" /\ "reply" \notin errs'[p]

\* C21: with P the candidate rows and N the count of the active algorithm,
\* sendReply writes a peer list that holds every member of P when |P| <= N
\* and exactly N members of P when |P| > N.
C21_ReplyIsPOrNOfP ==
  [][\A p \in Procs :
       LeavesReply(p)
         => \E N \in Algorithm(ann[p]) :
              LET P == {r.peers_id : r \in CandidateRows(ann[p])} IN
              /\ Len(body'[p]) = Len(body[p]) + 1
              /\ body'[p][Len(body'[p])].dict = "peers"
              /\ Len(body'[p][Len(body'[p])].peers) = 6 * Cardinality(sel'[p])
              /\ sel'[p] \subseteq P
              /\ Cardinality(sel'[p]) = IF Cardinality(P) <= N THEN Cardinality(P) ELSE N]_vars


\* C22: for every admitted announce the count the active algorithm returns,
\* on every build, is a non-negative integer.
C22_CountNonNegative ==
  \A p \in Procs :
    pc[p] = "reply" => (Algorithm(ann[p]) # {} /\ \A N \in Algorithm(ann[p]) : N >= 0)


\* handler p admits its announce in this step
Admits(p) == pc[p] = "idle" /\ pc'[p] = "reply"

\* C23: without the allowlist, the admission of an announce of a tracked key
\* for an info-hash that is not in the store inserts the info-hash with the
\* name "client added"; the announce is then answered with a peer list, and
\* its writer records the announce row.
C23_UnknownInfohashIsAdded ==
  [][\A p \in Procs :
       /\ (/\ Admits(p)
           /\ conf.DisableAllowlist
           /\ \E q \in peers : q.announce_key = ann'[p].Announce_key
           /\ ~\E i \in infohashes : i.info_hash = ann'[p].Info_hash)
            => \E i \in infohashes' : /\ i.info_hash = ann'[p].Info_hash
                                      /\ i.name = "client added"
       /\ (LeavesReply(p) /\ conf.DisableAllowlist)
            => (Len(body'[p]) > 0 /\ body'[p][Len(body'[p])].dict = "peers")
       /\ (/\ Upserts(p)
           /\ conf.DisableAllowlist
           /\ \E q \in peers : q.announce_key = ann[p].Announce_key
           /\ \E i \in infohashes : i.info_hash = ann[p].Info_hash)
            => \E r \in announces' :
                 /\ \E q \in peers : q.id = r.peers_id /\ q.announce_key = ann[p].Announce_key
                 /\ \E i \in infohashes : i.id = r.info_hash_id
                                          /\ i.info_hash = ann[p].Info_hash]_vars


\* a request with a required field missing or out of its range
Malformed(r) ==
  \/ r.info_hash = ""
  \/ AtoiErr(r.port) \/ Atoi(r.port) \notin 1..65535
  \/ AtoiErr(r.left) \/ Atoi(r.left) < 0
  \/ AtoiErr(r.uploaded) \/ Atoi(r.uploaded) < 0
  \/ AtoiErr(r.downloaded) \/ Atoi(r.downloaded) < 0

\* C24: an announce with a required field missing or malformed (port outside
\* 1..65535, or left, uploaded or downloaded not an integer >= 0) is answered
\* with the parse-error failure, and the handler stops there, so the store is
\* left unchanged.
C24_MalformedIsRejected ==
  [][\A p \in Procs : \A r \in RequestsMono :
       (Malformed(r) /\ Begin(p, r))
         => /\ body'[p] = <<FailureReason("error parsing announce")>>
            /\ pc'[p] = "done"
            /\ UNCHANGED <<peers, infohashes, announces>>]_vars


\* the recent announce rows of key k that are not stopped
LiveRowsOf(k) ==
  {r \in announces :
     /\ \E q \in peers : q.id = r.peers_id /\ q.announce_key = k
     /\ now - r.last_announce <= StaleInterval
     /\ r.event # Stopped}

\* numwant when s >= numwant, s + 1 otherwise
SeedsFormula(s, numwant) == IF s >= numwant THEN numwant ELSE s + 1

\* C25: for an admitted announce, PeersForSeeds returns numwant when
\* s >= numwant and s + 1 otherwise, s being the number of the key's recent
\* non-stopped rows with amount_left = 0, and PeersForAnnounces the same with
\* all such rows; the result is at most numwant and at least 1 when numwant >= 1.
C25_SeedsAndAnnouncesFormula ==
  \A p \in Procs :
    pc[p] = "reply" =>
      LET a == ann[p]
          all == Cardinality(LiveRowsOf(a.Announce_key))
          s == Cardinality({r \in LiveRowsOf(a.Announce_key) : r.amount_left = 0})
      IN /\ PeersForSeeds(a) = {SeedsFormula(s, a.Numwant)}
         /\ PeersForAnnounces(a) = {SeedsFormula(all, a.Numwant)}
         /\ \A N \in PeersForSeeds(a) \cup PeersForAnnounces(a) :
              N <= a.Numwant /\ (a.Numwant >= 1 => N >= 1)

\* a seeder with one seeding row asks for six peers and is granted two
C25_Witness ==
  \E p \in Procs :
    /\ pc[p] = "reply"
    /\ conf.Algorithm = "PeersForSeeds"
    /\ ann[p].Numwant > 1
    /\ Cardinality({r \in LiveRowsOf(ann[p].Announce_key) : r.amount_left = 0}) = 1
    /\ PeersForSeeds(ann[p]) = {2}


\* floor((1 - seeding/snatched) * numwant * max(0, maxRatio - up/down) / maxRatio),
\* the ratio being 0 when nothing was downloaded
RatioScale(q, seeding, numwant) ==
  IF q.downloaded = 0
  THEN ((q.snatched - seeding) * numwant) \div q.snatched
  ELSE ((q.snatched - seeding) * numwant * Max2(0, maxRatio * q.downloaded - q.uploaded))
         \div (maxRatio * q.snatched * q.downloaded)

\* C26: for an admitted announce of a key with peer row q, PeersForRatio
\* returns numwant when the key seeds at least what it has snatched (or has
\* snatched nothing); otherwise it returns numwant minus the scaled amount,
\* brought into the interval from minimumPeers to numwant.
C26_RatioFormula ==
  \A p \in Procs : \A q \in peers :
    (pc[p] = "reply" /\ q.announce_key = ann[p].Announce_key) =>
      LET a == ann[p]
          seeding == Cardinality({r \in LiveRowsOf(a.Announce_key) : r.amount_left = 0})
      IN \E N \in PeersForRatio(a) :
           /\ PeersForRatio(a) = {N}
           /\ IF q.snatched = 0 \/ seeding >= q.snatched
              THEN N = a.Numwant
              ELSE LET x == a.Numwant - RatioScale(q, seeding, a.Numwant) IN
                   /\ N \in minimumPeers..a.Numwant
                   /\ x \in minimumPeers..a.Numwant => N = x
                   /\ x < minimumPeers => N = minimumPeers
                   /\ x > a.Numwant => N = a.Numwant


\* the goodSeedCount PeersForGoodSeeds computes in the current state
goodSeedCount ==
  LET seeds == {r \in announces :
                  /\ \E p \in peers : p.id = r.peers_id
                  /\ r.amount_left = 0 /\ Recent(r) /\ r.event # Stopped}
      P == {r.peers_id : r \in seeds}
      cnt == [p \in P |-> Cardinality({r \in seeds : r.peers_id = p})]
  IN goodSeedCountOf(cnt, P)

\* C27: whenever PeersForGoodSeeds is about to be called for an admitted
\* announce, the goodSeedCount it computes is at least minimumPeers.
C27_GoodSeedCountAtLeastMinimum ==
  \A p \in Procs :
    (pc[p] = "reply" /\ conf.Algorithm = "PeersForGoodSeeds" /\ ann[p].Numwant # 0)
      => goodSeedCount >= minimumPeers


(***************************************************************************)
(* SpecScrape: two clients seed, leech and complete two info-hashes, one   *)
(* of them with a "+" byte, while the swarm is scraped with and without    *)
(* info_hash parameters and time passes.                                   *)
(***************************************************************************)
InitScrape ==
  /\ InitStore({1}, 2)
  /\ conf \in [Algorithm : {"NumwantPeers"}, DisableAllowlist : {TRUE},
               Authorization : {"secret"}]
  /\ annLeft = MaxAnnounces
  /\ faultsLeft = 0
  /\ ticksLeft = MaxTicks

ScrapeHashes == {"aaaa", "a+aa"}

RequestsScrape ==
  {Request(KeyNames[1], h, 2, 0, 0, 0, ev) : h \in ScrapeHashes, ev \in {"", "completed"}}
    \cup {Request(KeyNames[2], "aaaa", 2, left, 0, 0, "") : left \in {0, 1}}

NextScrape ==
  \/ \E p \in Procs :
       \/ \E r \in RequestsScrape : Begin(p, r)
       \/ SendReply(p)
       \/ WriteRead(p)
       \/ WritePeers(p)
       \/ WriteInfohash(p)
       \/ WriteAnnounces(p)
       \/ Return(p)
  \/ Scrape({})
  \/ \E hs \in SUBSET ScrapeHashes : ScrapeQuery(hs)
  \/ Tick(StaleInterval + 1)

SpecScrape == InitScrape /\ [][NextScrape]_vars

\* the keys with a recent announce row for info-hash row i that is not stopped
\* and whose amount_left satisfies seeding (= 0) or not (> 0)
KeysOn(i, seeding) ==
  {q.announce_key : q \in {x \in peers :
     \E r \in announces :
       /\ r.peers_id = x.id /\ r.info_hash_id = i.id
       /\ Recent(r) /\ r.event # Stopped
       /\ (r.amount_left = 0) = seeding
       /\ r.amount_left >= 0}}

\* what a scrape step reports about the store it ran on
ScrapeCountsRight ==
  \A f \in scrapeOut'.files :
    \E i \in infohashes :
      /\ i.info_hash = f.info_hash
      /\ f.complete = Cardinality(KeysOn(i, TRUE))
      /\ f.incomplete = Cardinality(KeysOn(i, FALSE))
      /\ f.downloaded = i.downloaded

\* C28: a scrape reports, for every info-hash in its answer, complete as the
\* number of distinct keys with a recent non-stopped row with amount_left = 0,
\* incomplete as the number with amount_left > 0 and downloaded as the stored
\* counter; with info_hash parameters it reports exactly the requested
\* info-hashes that are in the registry, without them the whole registry.
C28_ScrapeCountsAndFilter ==
  [][/\ Scrape({})
          => /\ ScrapeCountsRight
             /\ {f.info_hash : f \in scrapeOut'.files} = {i.info_hash : i \in infohashes}
     /\ \A hs \in SUBSET ScrapeHashes :
          ScrapeQuery(hs)
            => /\ ScrapeCountsRight
               /\ {f.info_hash : f \in scrapeOut'.files}
                    = {i.info_hash : i \in infohashes} \cap hs]_vars


\* C29: adding an info-hash that is already in the registry is answered with
\* the error status, and leaves the registry (the row's name and downloaded
\* counter) and the announces as they are.
C29_DuplicateAddIsError ==
  [][\A h \in Hashes : \A name \in Hashes :
       (/\ PostInfohash(h, name, conf.Authorization)
        /\ conf.Authorization # ""
        /\ \E i \in infohashes : i.info_hash = h)
         => /\ apiOut'.code = StatusBadRequest
            /\ infohashes' = infohashes
            /\ announces' = announces]_vars

\* a duplicate add was refused for an info-hash that a client had added and
\* that has an announce row
C29_Witness ==
  /\ apiOut.code = StatusBadRequest
  /\ apiOut.authorization = conf.Authorization
  /\ \E i \in infohashes :
       /\ i.info_hash = "aaaa"
       /\ i.name = "client added"
       /\ \E r \in announces : r.info_hash_id = i.id


\* C30: generate_announce_key stores a peer row for the key it returns, and
\* while that row exists an announce with the key for an allowed info-hash
\* (one in the registry, or any without the allowlist) is admitted.
C30_IssuedKeyIsAdmitted ==
  [][/\ Generate => \E q \in peers' : q.announce_key = KeyNames[seqPeers]
     /\ \A p \in Procs : \A r \in Requests :
          (/\ Begin(p, r)
           /\ \E q \in peers : q.announce_key = r.id
           /\ (conf.DisableAllowlist \/ \E i \in infohashes : i.info_hash = r.info_hash))
            => Admits(p)]_vars


\* C31: in every peer-list reply the values of the keys interval and
\* min interval are the bencoded integers 2700 and 30.
C31_IntervalsAreIntegers ==
  \A p \in Procs : \A n \in 1..Len(body[p]) :
    body[p][n].dict = "peers" =>
      /\ PeerListValues(body[p][n].peers).interval = BencodeInteger(Interval)
      /\ PeerListValues(body[p][n].peers).min_interval = BencodeInteger(MinInterval)


\* the announce row of key k and info-hash h in the set rows
RowOf(rows, k, h) ==
  {r \in rows : /\ \E q \in peers : q.id = r.peers_id /\ q.announce_key = k
                /\ \E i \in infohashes : i.id = r.info_hash_id /\ i.info_hash = h}

\* C32: no step lowers the last_announce of an announce row, and a writer
\* that completes for a (key, info-hash) that already has a row leaves the
\* row with last_announce equal to the current time.
C32_LastAnnounceMonotone ==
  [][/\ \A r \in announces : \A s \in announces' :
          (s.peers_id = r.peers_id /\ s.info_hash_id = r.info_hash_id)
            => s.last_announce >= r.last_announce
     /\ \A p \in Procs :
          (Upserts(p) /\ RowOf(announces, ann[p].Announce_key, ann[p].Info_hash) # {})
            => /\ RowOf(announces', ann[p].Announce_key, ann[p].Info_hash) # {}
               /\ \A s \in RowOf(announces', ann[p].Announce_key, ann[p].Info_hash) :
                    s.last_announce = now']_vars

\* a key has announced its info-hash a second time after time has passed
C32_Witness ==
  \E p \in Procs :
    /\ pc[p] = "done"
    /\ errs[p] = {}
    /\ now > 0
    /\ Len(hist[ann[p].Announce_key]) >= 2
    /\ \E s \in RowOf(announces, ann[p].Announce_key, ann[p].Info_hash) :
         s.last_announce = now


\* C33: with the allowlist enabled, while an added info-hash is in the
\* registry, every announce for it by a key that has a peer row is admitted,
\* whatever was announced before the info-hash was added.
C33_AddedInfohashIsAdmitted ==
  [][\A p \in Procs : \A r \in Requests :
       (/\ Begin(p, r)
        /\ ~conf.DisableAllowlist
        /\ \E i \in infohashes : i.info_hash = r.info_hash
        /\ \E q \in peers : q.announce_key = r.id)
         => (pc'[p] = "reply" /\ body'[p] = <<>>)]_vars


\* C34: over a sequence of announces of one key for one info-hash whose
\* reported values never decrease, the peer row's totals never exceed the
\* largest, i.e. the latest, values reported; in particular an announce that
\* repeats the values of a stopped announce adds nothing.
C34_TotalsAtMostLargestReport ==
  \A q \in peers :
    /\ q.uploaded <= Latest(q.announce_key)[1]
    /\ q.downloaded <= Latest(q.announce_key)[2]


\* the positions of a handler inside writeAnnounce; a statement can fail at
\* each of them, and writeAnnounce then returns the error
WriterPcs == {"wread", "wpeers", "winfo", "wann"}

\* C35: the writer is all-or-nothing.  It can return an error from each of
\* its positions, so the store is as before the announce at every error
\* return exactly if no step that keeps a handler inside the writer changes
\* peers, infohashes or announces: a step of the writer that changes the
\* store is its successful return.
C35_WriterAllOrNothing ==
  [][\A p \in Procs :
       (/\ pc[p] \in WriterPcs
        /\ pc'[p] # pc[p]
        /\ <<peers, infohashes, announces>>' # <<peers, infohashes, announces>>)
         => (pc'[p] = "done" /\ "write" \notin errs'[p])]_vars


\* C36: when the writer of an admitted announce returns without an error, the
\* store holds the announce row of its key and info-hash, with the reported
\* ip_port, amount_left, uploaded, downloaded and event.
C36_SuccessLeavesRow ==
  [][\A p \in Procs :
       Upserts(p)
         => \E s \in RowOf(announces', ann[p].Announce_key, ann[p].Info_hash) :
              /\ s.ip_port = ann[p].Ip_port
              /\ s.amount_left = ann[p].Amount_left
              /\ s.uploaded = ann[p].Uploaded
              /\ s.downloaded = ann[p].Downloaded
              /\ s.event = ann[p].Event]_vars


\* C37: the response body of a finished announce holds exactly one bencoded
\* dictionary, a peer list or a failure reason; in particular no failure
\* reason follows a peer list.
C37_ExactlyOneDictionary ==
  \A p \in Procs :
    pc[p] = "done" =>
      /\ Len(body[p]) = 1
      /\ body[p][1].dict \in {"peers", "failure"}


\* C38: without the allowlist, whenever the cache marks an info-hash as
\* allowed, the info-hash is in the info-hash table: the entry is set only
\* once the insert of the announce that sets it has succeeded.
C38_CachedInfohashIsStored ==
  conf.DisableAllowlist =>
    \A h \in Hashes :
      rdb[InfoHashName(h)] = "true" => \E i \in infohashes : i.info_hash = h


(***************************************************************************)
(* SpecUntracked: without the allowlist, one key announces two info-hashes *)
(* while three months pass and the keys are pruned.                        *)
(***************************************************************************)
InitUntracked ==
  /\ InitStore({1}, 1)
  /\ conf \in [Algorithm : {"NumwantPeers"}, DisableAllowlist : {TRUE},
               Authorization : {"secret"}]
  /\ annLeft = MaxAnnounces
  /\ faultsLeft = 0
  /\ ticksLeft = MaxTicks

RequestsUntracked ==
  {Request(k, h, 1, 0, 0, 0, "") : k \in {KeyNames[1], BogusKey}, h \in {"aaaa", "bbbb"}}

NextUntracked ==
  \/ \E p \in Procs :
       \/ \E r \in RequestsUntracked : Begin(p, r)
       \/ SendReply(p)
       \/ WriteRead(p)
       \/ WritePeers(p)
       \/ WriteAnnounces(p)
       \/ Return(p)
  \/ PruneAnnounceKeys
  \/ Tick(PruneInterval + 1)

SpecUntracked == InitUntracked /\ [][NextUntracked]_vars

\* handler p rejects its announce in this step, at parsing or at admission
Rejects(p) == pc[p] = "idle" /\ pc'[p] = "done"

\* the first half of C39: a step that rejects an announce changes no row
RejectedChangesNothing ==
  \A p \in Procs : Rejects(p) => UNCHANGED <<peers, infohashes, announces>>

\* C39: an announce rejected at parsing or admission changes no row of
\* peers, infohashes or announces; in particular, without the allowlist, an
\* announce by a key that has no peer row does not insert its info-hash.
C39_RejectedChangesNothing ==
  [][/\ RejectedChangesNothing
     /\ \A p \in Procs : \A r \in RequestsUntracked :
          (/\ Begin(p, r)
           /\ conf.DisableAllowlist
           /\ ~\E q \in peers : q.announce_key = r.id)
            => infohashes' = infohashes]_vars


\* handler p answers the first announce of its key: no announce of the key
\* has reached the writer's UPDATE peers
FirstOfKey(p) == hist[ann[p].Announce_key] = <<>>

====
